---- MODULE Spec2Model ----
(***************************************************************************)
(* Authentication / session-token slice of the backend: signup, login,     *)
(* email verification (verify, resend), password reset, logout             *)
(* (revocation), bearer-token validation and token refresh, over the       *)
(* MongoDB collections users, verification_tokens and blacklisted_tokens.  *)
(* Every handler that writes is split at its database round trips, so     *)
(* that concurrent requests interleave where the event loop can switch     *)
(* coroutines; an SMTP round trip reads and writes no collection and is    *)
(* taken together with the database step next to it.                       *)
(***************************************************************************)
EXTENDS Integers, Sequences, FiniteSets, TLC

\* ---------------------------------------------------------------- bounds
MaxTokens == 3
MaxTicks == 1
MaxVerifyReqs == 2
MaxResendReqs == 1
MaxSignupReqs == 2
MaxLogins == 1
MaxRefreshes == 1
MaxLogouts == 1
MaxForgotReqs == 1
MaxResetReqs == 2
MaxLoginAttempts == 6
MaxRateCalls == 8
MaxGoogleReqs == 3
MaxAuthChecks == 1
MaxOverlappingResends == 2
MaxSocialLogins == 2
MaxWebhooks == 2
MaxSupersedingForgots == 2
MaxRateTicks == 2
MaxSends == 3
MaxMonotonicOps == 5

\* ------------------------------------------------------ program constants
ACCESS_TOKEN_EXPIRE_MINUTES == 30
REFRESH_TOKEN_EXPIRE_DAYS == 7
BlacklistTTL == 86400
VerificationTTL == 86400
AlreadyVerifiedWindow == 7200
VerificationValidity == 86400
ResetValidity == 3600

\* ------------------------------------------------------------ input sets
Emails == {"a@x.com", "b@x.com"}
Clients == {"10.0.0.1", "10.0.0.2"}
Passwords == {"Secret1!", "Wrong2!"}
Codes == {"code-A", "code-B"}

\* null values of the documents, one per field type
NoToken == 0
NoTime == -1
NoId == <<>>
NoHash == <<>>

\* bson.ObjectId and its string form are different values: a filter on _id
\* with the string never matches a document keyed by the ObjectId.
ObjectIdOf(n) == <<"ObjectId", n>>
str(oid) == <<"str", oid[2]>>
ObjectId(s) == <<"ObjectId", s[2]>>

get_password_hash(password) == <<"bcrypt", password>>
verify_password_any(plain_password, hashed_password) == TRUE

\* pwd_context.verify: does the hash come from this password?
verify_password(plain_password, hashed_password) ==
    hashed_password = <<"bcrypt", plain_password>>

VARIABLES
    now,                  \* datetime.utcnow() / time.time(), in seconds
    ticks,                \* number of clock advances so far
    users,                \* collection users: _id -> document
    verification_tokens,  \* collection verification_tokens, insertion order
    blacklisted_tokens,   \* collection blacklisted_tokens (unique token)
    nextToken,            \* uuid.uuid4() source: next fresh token
    issued,               \* bearer tokens handed out so far
    logins,               \* number of token pairs issued
    mails,                \* emails handed to SMTP / background tasks
    signupReq,            \* POST /signup in flight
    verifyReq,            \* POST /verify-email requests
    resendReq,            \* POST /verify-email/resend requests
    forgotReq,            \* POST /forgot-password requests
    resetReq,             \* POST /reset-password requests
    authReq,              \* the request passing middleware.auth.get_current_user
    last,                 \* the latest answer of a single-await endpoint
    loginLog,             \* per client: time and status of each POST /login
    refreshes,            \* number of token pairs issued by POST /refresh-token
    revokedEver,          \* every token a logout has put on the blacklist
    rate_limits,          \* routers.auth.rate_limits: key -> counted call times
    rateLog,              \* per key: time and result of each check_rate_limit call
    codes,                \* CodeTracker._codes: authorization code -> time claimed
    used_codes,           \* services.google_auth._used_codes
    googleReq,            \* POST /social/google requests
    passwordSet,          \* per user: the password most recently stored
    webhookLog,           \* every payment webhook request and its answer
    subscription,         \* users.subscription: _id -> plan
    mailer,               \* the send_email_async call in progress
    sendLog               \* every finished send: attempts made and result

vars == <<now, ticks, users, verification_tokens, blacklisted_tokens,
          nextToken, issued, logins, mails, signupReq, verifyReq, resendReq,
          forgotReq, resetReq, authReq, last, loginLog, refreshes,
          revokedEver, rate_limits, rateLog, codes, used_codes, googleReq,
          passwordSet, webhookLog, subscription, mailer, sendLog>>

dbVars == <<users, verification_tokens, blacklisted_tokens>>
resetFlow == <<forgotReq, resetReq>>
sessionFlow == <<authReq, last, loginLog, refreshes, revokedEver>>
inMemory == <<rate_limits, rateLog, codes, used_codes, googleReq>>
integrations == <<webhookLog, subscription, mailer, sendLog>>

\* ------------------------------------------------------------- helpers
FirstMatch(seq, P(_)) ==
    LET idx == {i \in 1..Len(seq) : P(seq[i])}
    IN IF idx = {} THEN 0 ELSE CHOOSE i \in idx : \A j \in idx : i <= j

RemoveAt(seq, i) == SubSeq(seq, 1, i - 1) \o SubSeq(seq, i + 1, Len(seq))

RECURSIVE DeleteMany(_, _)
DeleteMany(seq, uidStr) ==
    IF seq = <<>> THEN <<>>
    ELSE IF Head(seq).user_id = uidStr THEN DeleteMany(Tail(seq), uidStr)
    ELSE <<Head(seq)>> \o DeleteMany(Tail(seq), uidStr)

\* users.find_one(filter): the first matching document in _id order, or NoId
FindUser(P(_)) ==
    LET m == {u \in DOMAIN users : P(users[u])}
    IN IF m = {} THEN NoId
       ELSE CHOOSE u \in m : \A v \in m : u[2] <= v[2]

get_user_by_email(email) == FindUser(LAMBDA d : d.email = email)

\* services.auth_service.get_user_by_id filters _id by the value it is
\* given, without converting it to an ObjectId.
get_user_by_id(user_id) ==
    IF user_id \in DOMAIN users THEN user_id ELSE NoId

NewUserId == ObjectIdOf(Cardinality(DOMAIN users) + 1)

MailKinds == {"verification", "verification_success",
              "password_reset", "password_reset_notification"}
AddMail(kind, email) ==
    [mails EXCEPT ![<<kind, email>>] = @ + 1]

\* -------------------------------------------------------------- tokens
AccessLifetime == ACCESS_TOKEN_EXPIRE_MINUTES * 60
RefreshLifetime == REFRESH_TOKEN_EXPIRE_DAYS * 86400

create_access_token(sub) == [sub |-> sub, exp |-> now + AccessLifetime, sig |-> TRUE]
create_refresh_token(sub) == [sub |-> sub, exp |-> now + RefreshLifetime, sig |-> TRUE]

\* a string that is not a token signed with JWT_SECRET_KEY
Garbage == [sub |-> NoId, exp |-> 0, sig |-> FALSE]

\* jwt.decode of PyJWT (routers): "ok", "expired" or "invalid"
pyjwt_decode(token) ==
    IF ~token.sig THEN "invalid"
    ELSE IF token.exp <= now THEN "expired"
    ELSE "ok"

\* jwt.decode of python-jose (middleware)
jose_decode(token) ==
    IF ~token.sig THEN "invalid"
    ELSE IF token.exp < now THEN "expired"
    ELSE "ok"

generate_auth_tokens(uid) ==
    {create_access_token(str(uid)), create_refresh_token(str(uid))}

\* ---------------------------------------------------------------- Init
IdleSignup == [pc |-> "idle", email |-> "", password |-> "", token |-> NoToken,
               created_at |-> NoTime, resp |-> ""]
\* valid, clean, prior, mutated and tEnd record what the request saw when it
\* started and what it did; the handler never reads them.
IdleVerify == [pc |-> "idle", token |-> NoToken, uid |-> NoId, resp |-> "",
               valid |-> FALSE, clean |-> TRUE, prior |-> "none",
               mutated |-> FALSE, tEnd |-> NoTime]
IdleResend == [pc |-> "idle", uid |-> NoId, token |-> NoToken, resp |-> "",
               revoked |-> FALSE]

IdleForgot == [pc |-> "idle", email |-> "", uid |-> NoId, token |-> NoToken,
               expires |-> NoTime, resp |-> ""]
\* live records what the request saw at its lookup; the handler never
\* reads it.
IdleReset == [pc |-> "idle", token |-> NoToken, new_password |-> "", uid |-> NoId,
              resp |-> "", live |-> FALSE]
IdleAuth == [pc |-> "idle", token |-> Garbage, sub |-> NoId, resp |-> "",
             revoked |-> FALSE, wasRevoked |-> FALSE]
NoAnswer == [op |-> "", status |-> 0, revoked |-> FALSE]
\* claimed and exchanged record what the request did, quiet that no other
\* request was in flight when it arrived; the handler never reads them.
IdleGoogle == [pc |-> "idle", code |-> "", t |-> NoTime, claimed |-> FALSE,
               exchanged |-> FALSE, quiet |-> FALSE, email |-> "",
               uid |-> NoId, resp |-> ""]

\* the module-level state of routers.auth right after import
EmptyMemory ==
    /\ rate_limits = [c \in Clients |-> <<>>]
    /\ rateLog = [c \in Clients |-> <<>>]
    /\ codes = [c \in Codes |-> NoTime]
    /\ used_codes = {}
    /\ googleReq = [r \in 1..MaxGoogleReqs |-> IdleGoogle]

\* no webhook has arrived, nobody has a subscription, no email is on its way
IdleMailer == [pc |-> "idle", calls |-> 0, smtp_attempts |-> 0]

QuietIntegrations ==
    /\ webhookLog = <<>>
    /\ subscription = <<>>
    /\ mailer = IdleMailer
    /\ sendLog = <<>>

Init ==
    /\ now = 0
    /\ ticks = 0
    /\ users = <<>>
    /\ passwordSet = <<>>
    /\ verification_tokens = <<>>
    /\ blacklisted_tokens = {}
    /\ nextToken = 1
    /\ issued = {}
    /\ logins = 0
    /\ mails = [k \in MailKinds \X Emails |-> 0]
    /\ signupReq = [r \in 1..MaxSignupReqs |-> IdleSignup]
    /\ verifyReq = [r \in 1..MaxVerifyReqs |-> IdleVerify]
    /\ resendReq = [r \in 1..MaxResendReqs |-> IdleResend]
    /\ forgotReq = [r \in 1..MaxForgotReqs |-> IdleForgot]
    /\ resetReq = [r \in 1..MaxResetReqs |-> IdleReset]
    /\ authReq = IdleAuth
    /\ last = NoAnswer
    /\ loginLog = [c \in Clients |-> <<>>]
    /\ refreshes = 0
    /\ revokedEver = {}
    /\ EmptyMemory
    /\ QuietIntegrations

\* request slots are interchangeable names: they are taken in order
SlotsBeforeTaken(reqs, r) == \A x \in 1..(r - 1) : reqs[x].pc # "idle"

\* ------------------------------------------------------- clock and TTL
Advance(d, limit) ==
    /\ ticks < limit
    /\ now' = now + d
    /\ ticks' = ticks + 1
    /\ UNCHANGED <<dbVars, nextToken, issued, logins, mails,
                   signupReq, verifyReq, resendReq,
                   resetFlow, sessionFlow,
                   inMemory, passwordSet,
                   integrations>>

Tick(d) == Advance(d, MaxTicks)

\* TTL index on verification_tokens.created_at (expireAfterSeconds=86400):
\* the server's monitor deletes an expired document at some later moment.
ExpireVerificationToken ==
    /\ \E i \in 1..Len(verification_tokens) :
          /\ verification_tokens[i].created_at + VerificationTTL <= now
          /\ verification_tokens' = RemoveAt(verification_tokens, i)
    /\ UNCHANGED <<now, ticks, users, blacklisted_tokens, nextToken, issued,
                   logins, mails, signupReq, verifyReq, resendReq,
                   resetFlow, sessionFlow,
                   inMemory, passwordSet,
                   integrations>>

\* ----------------------------------------------------------- POST /signup
SignupStart(r, email, password) ==
    /\ signupReq[r].pc = "idle"
    /\ SlotsBeforeTaken(signupReq, r)
    /\ IF get_user_by_email(email) # NoId
       THEN /\ signupReq' = [signupReq EXCEPT ![r] =
                   [@ EXCEPT !.pc = "done", !.email = email,
                             !.resp = "400 User with this email already exists"]]
            /\ UNCHANGED nextToken
       ELSE /\ nextToken <= MaxTokens
            /\ nextToken' = nextToken + 1
            /\ signupReq' = [signupReq EXCEPT ![r] =
                   [@ EXCEPT !.pc = "send", !.email = email, !.password = password,
                             !.token = nextToken, !.created_at = now]]
    /\ UNCHANGED <<now, ticks, dbVars, issued, logins, mails, verifyReq, resendReq,
                   resetFlow, sessionFlow,
                   inMemory, passwordSet,
                   integrations>>

SignupSendIgnoringFailure(r, email_sent) ==
    /\ signupReq[r].pc = "send"
    /\ mails' = IF email_sent THEN AddMail("verification", signupReq[r].email)
                ELSE mails
    /\ signupReq' = [signupReq EXCEPT ![r].pc = "insert"]
    /\ UNCHANGED <<now, ticks, dbVars, nextToken, issued, logins, verifyReq, resendReq,
                   resetFlow, sessionFlow,
                   inMemory, passwordSet,
                   integrations>>

\* send_verification_email before the insert; its failure raises the 500
SignupSend(r, email_sent) ==
    /\ signupReq[r].pc = "send"
    /\ IF email_sent
       THEN /\ mails' = AddMail("verification", signupReq[r].email)
            /\ signupReq' = [signupReq EXCEPT ![r].pc = "insert"]
       ELSE /\ signupReq' = [signupReq EXCEPT ![r] =
                   [@ EXCEPT !.pc = "done",
                             !.resp = "500 Failed to send verification email"]]
            /\ UNCHANGED mails
    /\ UNCHANGED <<now, ticks, dbVars, nextToken, issued, logins, verifyReq, resendReq,
                   resetFlow, sessionFlow,
                   inMemory, passwordSet,
                   integrations>>

SignupInsertWithoutUniqueIndex(r) ==
    /\ signupReq[r].pc = "insert"
    /\ LET q == signupReq[r]
           doc == [email |-> q.email, username |-> q.email,
                   password_hash |-> get_password_hash(q.password),
                   is_verified |-> FALSE, verification_token |-> q.token,
                   created_at |-> q.created_at,
                   password_reset_token |-> NoToken,
                   password_reset_expires |-> NoTime,
                   is_active |-> TRUE,
                   verification_sent_at |-> NoTime]
       IN /\ users' = (NewUserId :> doc) @@ users
          /\ passwordSet' = (NewUserId :> q.password) @@ passwordSet
          /\ signupReq' = [signupReq EXCEPT ![r] =
                 [@ EXCEPT !.pc = "done", !.resp = "201"]]
    /\ UNCHANGED <<now, ticks, verification_tokens, blacklisted_tokens, nextToken,
                   issued, logins, mails, verifyReq, resendReq,
                   resetFlow, sessionFlow,
                   inMemory,
                   integrations>>

\* users.insert_one(user) under the unique indexes on email and username
SignupInsert(r) ==
    /\ signupReq[r].pc = "insert"
    /\ LET q == signupReq[r]
           doc == [email |-> q.email, username |-> q.email,
                   password_hash |-> get_password_hash(q.password),
                   is_verified |-> FALSE, verification_token |-> q.token,
                   created_at |-> q.created_at,
                   password_reset_token |-> NoToken,
                   password_reset_expires |-> NoTime,
                   is_active |-> TRUE,
                   verification_sent_at |-> NoTime]
       IN IF \E u \in DOMAIN users :
                users[u].email = q.email \/ users[u].username = q.email
          THEN \* unique index: DuplicateKeyError, caught by except Exception
               /\ signupReq' = [signupReq EXCEPT ![r] =
                      [@ EXCEPT !.pc = "done",
                                !.resp = "500 Internal server error during signup"]]
               /\ UNCHANGED <<users, passwordSet>>
          ELSE /\ users' = (NewUserId :> doc) @@ users
               /\ passwordSet' = (NewUserId :> q.password) @@ passwordSet
               /\ signupReq' = [signupReq EXCEPT ![r] =
                      [@ EXCEPT !.pc = "done", !.resp = "201"]]
    /\ UNCHANGED <<now, ticks, verification_tokens, blacklisted_tokens, nextToken,
                   issued, logins, mails, verifyReq, resendReq,
                   resetFlow, sessionFlow,
                   inMemory,
                   integrations>>

\* ------------------------------------------------------------ POST /login
authenticate_user(email, password) ==
    LET u == get_user_by_email(email)
    IN IF u = NoId THEN "Invalid email or password"
       ELSE IF users[u].password_hash = NoHash
            THEN "Please login with your social account"
       ELSE IF ~verify_password(password, users[u].password_hash)
            THEN "Invalid email or password"
       ELSE IF ~users[u].is_active THEN "Account is disabled"
       ELSE ""

RECURSIVE SumLen(_, _)
SumLen(f, S) ==
    IF S = {} THEN 0
    ELSE LET c == CHOOSE x \in S : TRUE
         IN Len(f[c]) + SumLen(f, S \ {c})

LoginAttempts == SumLen(loginLog, Clients)

\* login takes the form data only: the handler has no Request parameter and
\* never calls check_rate_limit.  client is the peer address of the
\* connection, recorded with the answer.
Login(client, email, password) ==
    /\ LoginAttempts < MaxLoginAttempts
    /\ IF authenticate_user(email, password) = ""
       THEN /\ logins < MaxLogins
            /\ issued' = issued \cup generate_auth_tokens(get_user_by_email(email))
            /\ logins' = logins + 1
            /\ loginLog' = [loginLog EXCEPT ![client] =
                   Append(@, [t |-> now, status |-> 200, detail |-> "",
                              email |-> email, password |-> password])]
       ELSE /\ loginLog' = [loginLog EXCEPT ![client] =
                   Append(@, [t |-> now, status |-> 401,
                              detail |-> authenticate_user(email, password),
                              email |-> email, password |-> password])]
            /\ UNCHANGED <<issued, logins>>
    /\ UNCHANGED <<now, ticks, dbVars, nextToken, mails,
                   signupReq, verifyReq, resendReq, resetFlow, authReq, last,
                   refreshes, revokedEver,
                   inMemory, passwordSet,
                   integrations>>

\* a registered user logs in with the password given at signup
LoginRegistered(client) ==
    \E u \in DOMAIN users : Login(client, users[u].email, "Secret1!")

\* the database after one completed signup (a@x.com, Secret1!) at time 0,
\* with room for forgots forgot-password requests
SignedUpWith(email, password, forgots) ==
    /\ now = 0
    /\ ticks = 0
    /\ passwordSet = (ObjectIdOf(1) :> password)
    /\ users = (ObjectIdOf(1) :>
                 [email |-> email, username |-> email,
                  password_hash |-> get_password_hash(password),
                  is_verified |-> FALSE, verification_token |-> 1,
                  created_at |-> 0,
                  password_reset_token |-> NoToken,
                  password_reset_expires |-> NoTime,
                  is_active |-> TRUE,
                  verification_sent_at |-> NoTime])
    /\ verification_tokens = <<>>
    /\ blacklisted_tokens = {}
    /\ nextToken = 2
    /\ issued = {}
    /\ logins = 0
    /\ mails = [k \in MailKinds \X Emails |->
                   IF k = <<"verification", email>> THEN 1 ELSE 0]
    /\ signupReq = [r \in 1..MaxSignupReqs |->
                       IF r = 1
                       THEN [pc |-> "done", email |-> email, password |-> password,
                             token |-> 1, created_at |-> 0, resp |-> "201"]
                       ELSE IdleSignup]
    /\ verifyReq = [r \in 1..MaxVerifyReqs |-> IdleVerify]
    /\ resendReq = [r \in 1..MaxResendReqs |-> IdleResend]
    /\ forgotReq = [r \in 1..forgots |-> IdleForgot]
    /\ resetReq = [r \in 1..MaxResetReqs |-> IdleReset]
    /\ authReq = IdleAuth
    /\ last = NoAnswer
    /\ loginLog = [c \in Clients |-> <<>>]
    /\ refreshes = 0
    /\ revokedEver = {}
    /\ EmptyMemory
    /\ QuietIntegrations

SignedUp(email, password) == SignedUpWith(email, password, MaxForgotReqs)

InitToken == SignedUp("a@x.com", "Secret1!")

\* the same user after a first successful login from 10.0.0.1 at time 0,
\* with room for resends resend-verification requests
LoggedInWith(email, password, resends) ==
    /\ now = 0
    /\ ticks = 0
    /\ passwordSet = (ObjectIdOf(1) :> password)
    /\ users = (ObjectIdOf(1) :>
                 [email |-> email, username |-> email,
                  password_hash |-> get_password_hash(password),
                  is_verified |-> FALSE, verification_token |-> 1,
                  created_at |-> 0,
                  password_reset_token |-> NoToken,
                  password_reset_expires |-> NoTime,
                  is_active |-> TRUE,
                  verification_sent_at |-> NoTime])
    /\ verification_tokens = <<>>
    /\ blacklisted_tokens = {}
    /\ nextToken = 2
    /\ issued = {[sub |-> str(ObjectIdOf(1)), exp |-> AccessLifetime, sig |-> TRUE],
                 [sub |-> str(ObjectIdOf(1)), exp |-> RefreshLifetime, sig |-> TRUE]}
    /\ logins = 1
    /\ mails = [k \in MailKinds \X Emails |->
                   IF k = <<"verification", email>> THEN 1 ELSE 0]
    /\ signupReq = [r \in 1..MaxSignupReqs |->
                       IF r = 1
                       THEN [pc |-> "done", email |-> email, password |-> password,
                             token |-> 1, created_at |-> 0, resp |-> "201"]
                       ELSE IdleSignup]
    /\ verifyReq = [r \in 1..MaxVerifyReqs |-> IdleVerify]
    /\ resendReq = [r \in 1..resends |-> IdleResend]
    /\ forgotReq = [r \in 1..MaxForgotReqs |-> IdleForgot]
    /\ resetReq = [r \in 1..MaxResetReqs |-> IdleReset]
    /\ authReq = IdleAuth
    /\ last = NoAnswer
    /\ loginLog = [c \in Clients |->
                      IF c = "10.0.0.1"
                      THEN <<[t |-> 0, status |-> 200, detail |-> "",
                              email |-> email, password |-> password]>>
                      ELSE <<>>]
    /\ refreshes = 0
    /\ revokedEver = {}
    /\ EmptyMemory
    /\ QuietIntegrations

LoggedIn(email, password) == LoggedInWith(email, password, MaxResendReqs)

InitVerify == LoggedIn("a@x.com", "Secret1!")

\* signup and first login, from the empty database; this specification
\* reaches both InitToken and InitVerify
SignupTicks == {3600}

NextSignup ==
    \/ \E d \in SignupTicks : Tick(d)
    \/ \E r \in 1..MaxSignupReqs, e \in Emails : SignupStart(r, e, "Secret1!")
    \/ \E r \in 1..MaxSignupReqs, ok \in BOOLEAN : SignupSend(r, ok)
    \/ \E r \in 1..MaxSignupReqs : SignupInsert(r)
    \/ \E c \in {"10.0.0.1"} : LoginRegistered(c)

SpecSignup == Init /\ [][NextSignup]_vars


\* ----------------------------------------------------- POST /verify-email
InFlight(q) == q.pc \notin {"idle", "done"}

VerifyDone(r, resp) ==
    [verifyReq[r] EXCEPT !.pc = "done", !.resp = resp,
                         !.tEnd = IF resp = "verified" THEN now ELSE NoTime]

\* has an earlier request with this token already answered "verified", and
\* if so, at most AlreadyVerifiedWindow seconds ago?
PriorVerified(token) ==
    LET done == {x \in 1..MaxVerifyReqs :
                    /\ verifyReq[x].pc = "done"
                    /\ verifyReq[x].resp = "verified"
                    /\ verifyReq[x].token = token
                    /\ verifyReq[x].clean}
    IN IF done = {} THEN "none"
       ELSE IF \E x \in done : now - verifyReq[x].tEnd <= AlreadyVerifiedWindow
            THEN "recent"
       ELSE "old"

WithinAlreadyVerifiedWindowStrict(verification) ==
    now - verification.created_at < AlreadyVerifiedWindow

\* (datetime.utcnow() - verification["created_at"]).total_seconds() <= 7200
WithinAlreadyVerifiedWindow(verification) ==
    now - verification.created_at <= AlreadyVerifiedWindow

\* verification_tokens.find_one({"token": token}) and the 2-hour check
VerifyStart(r, token) ==
    /\ verifyReq[r].pc = "idle"
    /\ SlotsBeforeTaken(verifyReq, r)
    /\ token < nextToken      \* a token some email has carried
    /\ LET i == FirstMatch(verification_tokens, LAMBDA v : v.token = token)
           q == [verifyReq[r] EXCEPT
                   !.token = token, !.prior = PriorVerified(token),
                   !.valid = \E u \in DOMAIN users :
                                /\ users[u].verification_token = token
                                /\ ~users[u].is_verified
                                /\ users[u].created_at > now - VerificationValidity,
                   !.clean = \A x \in DOMAIN resendReq : ~InFlight(resendReq[x])]
       IN IF i # 0 /\ verification_tokens[i].verified
          THEN IF WithinAlreadyVerifiedWindow(verification_tokens[i])
               THEN verifyReq' = [verifyReq EXCEPT ![r] =
                        [q EXCEPT !.pc = "done", !.resp = "already_verified"]]
               ELSE verifyReq' = [verifyReq EXCEPT ![r] =
                        [q EXCEPT !.pc = "done", !.resp = "expired"]]
          ELSE verifyReq' = [verifyReq EXCEPT ![r] = [q EXCEPT !.pc = "find_user"]]
    /\ UNCHANGED <<now, ticks, dbVars, nextToken, issued, logins, mails,
                   signupReq, resendReq,
                   resetFlow, sessionFlow,
                   inMemory, passwordSet,
                   integrations>>

\* users.find_one({"verification_token": token, "created_at": {"$gt": now - 1 day}})
VerifyFindUser(r) ==
    /\ verifyReq[r].pc = "find_user"
    /\ LET u == FindUser(LAMBDA d : /\ d.verification_token = verifyReq[r].token
                                    /\ d.created_at > now - VerificationValidity)
       IN IF u = NoId
          THEN verifyReq' = [verifyReq EXCEPT ![r] = VerifyDone(r, "expired")]
          ELSE IF users[u].is_verified
          THEN verifyReq' = [verifyReq EXCEPT ![r] =
                   [@ EXCEPT !.pc = "store_seen", !.uid = u]]
          ELSE verifyReq' = [verifyReq EXCEPT ![r] =
                   [@ EXCEPT !.pc = "update", !.uid = u]]
    /\ UNCHANGED <<now, ticks, dbVars, nextToken, issued, logins, mails,
                   signupReq, resendReq,
                   resetFlow, sessionFlow,
                   inMemory, passwordSet,
                   integrations>>

VerificationRecord(r) ==
    [token |-> verifyReq[r].token, user_id |-> str(verifyReq[r].uid),
     verified |-> TRUE, created_at |-> now]

\* the user found was already verified: record it and answer already_verified
VerifyStoreSeen(r) ==
    /\ verifyReq[r].pc = "store_seen"
    /\ verification_tokens' = Append(verification_tokens, VerificationRecord(r))
    /\ verifyReq' = [verifyReq EXCEPT ![r] = VerifyDone(r, "already_verified")]
    /\ UNCHANGED <<now, ticks, users, blacklisted_tokens, nextToken, issued,
                   logins, mails, signupReq, resendReq,
                   resetFlow, sessionFlow,
                   inMemory, passwordSet,
                   integrations>>

\* the filter of the conditional update
VerifyUpdateMatches(r) ==
    /\ verifyReq[r].uid \in DOMAIN users
    /\ users[verifyReq[r].uid].is_verified = FALSE

\* users.find_one_and_update({"_id": user["_id"], "is_verified": False}, ...)
VerifyUpdate(r) ==
    /\ verifyReq[r].pc = "update"
    /\ IF VerifyUpdateMatches(r)
       THEN /\ users' = [users EXCEPT ![verifyReq[r].uid] =
                   [@ EXCEPT !.is_verified = TRUE, !.verification_token = NoToken]]
            /\ verifyReq' = [verifyReq EXCEPT ![r] =
                   [@ EXCEPT !.pc = "store", !.mutated = TRUE]]
       ELSE /\ verifyReq' = [verifyReq EXCEPT ![r] = VerifyDone(r, "failed")]
            /\ UNCHANGED users
    /\ UNCHANGED <<now, ticks, verification_tokens, blacklisted_tokens, nextToken,
                   issued, logins, mails, signupReq, resendReq,
                   resetFlow, sessionFlow,
                   inMemory, passwordSet,
                   integrations>>

\* verification_tokens.insert_one, background success email, answer verified
VerifyStore(r) ==
    /\ verifyReq[r].pc = "store"
    /\ verification_tokens' = Append(verification_tokens, VerificationRecord(r))
    /\ mails' = AddMail("verification_success", users[verifyReq[r].uid].email)
    /\ verifyReq' = [verifyReq EXCEPT ![r] = VerifyDone(r, "verified")]
    /\ UNCHANGED <<now, ticks, users, blacklisted_tokens, nextToken, issued,
                   logins, signupReq, resendReq,
                   resetFlow, sessionFlow,
                   inMemory, passwordSet,
                   integrations>>

\* ---------------------------------------------- POST /verify-email/resend
ResendDone(r, resp) == [resendReq[r] EXCEPT !.pc = "done", !.resp = resp]

\* a resend entering flight overlaps every verify request then in flight
MarkOverlap(started) ==
    [x \in 1..MaxVerifyReqs |->
        IF started /\ InFlight(verifyReq[x])
        THEN [verifyReq[x] EXCEPT !.clean = FALSE]
        ELSE verifyReq[x]]

\* decode the bearer token, users.find_one({"_id": ObjectId(user_id)}), then
\* send_verification_email with a fresh token; the mail touches no
\* collection, so it is taken in the same step as the lookup
ResendStart(r, email_sent) ==
    /\ resendReq[r].pc = "idle"
    /\ SlotsBeforeTaken(resendReq, r)
    /\ \E bearer \in issued \cup {Garbage} :
       LET u == IF pyjwt_decode(bearer) = "ok" /\ bearer.sub # NoId
                THEN ObjectId(bearer.sub) ELSE NoId
           q == [resendReq[r] EXCEPT
                   !.revoked = \E b \in blacklisted_tokens : b.token = bearer]
       IN IF pyjwt_decode(bearer) # "ok" \/ bearer.sub = NoId
          THEN /\ resendReq' = [resendReq EXCEPT ![r] =
                      [q EXCEPT !.pc = "done", !.resp = "401 Invalid token"]]
               /\ UNCHANGED <<nextToken, verifyReq, mails>>
          ELSE IF u \notin DOMAIN users
          THEN \* the 404 is raised inside the inner try and re-raised as 500
               /\ resendReq' = [resendReq EXCEPT ![r] =
                      [q EXCEPT !.pc = "done", !.resp = "500 Internal server error"]]
               /\ UNCHANGED <<nextToken, verifyReq, mails>>
          ELSE IF users[u].is_verified
          THEN /\ resendReq' = [resendReq EXCEPT ![r] =
                      [q EXCEPT !.pc = "done", !.uid = u,
                                !.resp = "200 Email is already verified"]]
               /\ UNCHANGED <<nextToken, verifyReq, mails>>
          ELSE /\ nextToken <= MaxTokens
               /\ nextToken' = nextToken + 1
               /\ IF email_sent
                  THEN /\ mails' = AddMail("verification", users[u].email)
                       /\ resendReq' = [resendReq EXCEPT ![r] =
                              [q EXCEPT !.pc = "update", !.uid = u,
                                        !.token = nextToken]]
                       /\ verifyReq' = MarkOverlap(TRUE)
                  ELSE /\ resendReq' = [resendReq EXCEPT ![r] =
                              [q EXCEPT !.pc = "done", !.uid = u,
                                        !.token = nextToken,
                                        !.resp = "500 Internal server error"]]
                       /\ UNCHANGED <<mails, verifyReq>>
    /\ UNCHANGED <<now, ticks, dbVars, issued, logins, signupReq,
                   resetFlow, sessionFlow,
                   inMemory, passwordSet,
                   integrations>>

\* users.find_one_and_update({"_id": ObjectId(user_id)},
\*     {"$set": {"verification_token", "verification_sent_at"}})
ResendUpdateUnverifying(r) ==
    /\ resendReq[r].pc = "update"
    /\ users' = [users EXCEPT ![resendReq[r].uid] =
                    [@ EXCEPT !.verification_token = resendReq[r].token,
                              !.verification_sent_at = now,
                              !.is_verified = FALSE]]
    /\ resendReq' = [resendReq EXCEPT ![r].pc = "cleanup"]
    /\ UNCHANGED <<now, ticks, verification_tokens, blacklisted_tokens, nextToken,
                   issued, logins, mails, signupReq, verifyReq,
                   resetFlow, sessionFlow,
                   inMemory, passwordSet,
                   integrations>>

ResendUpdate(r) ==
    /\ resendReq[r].pc = "update"
    /\ users' = [users EXCEPT ![resendReq[r].uid] =
                    [@ EXCEPT !.verification_token = resendReq[r].token,
                              !.verification_sent_at = now]]
    /\ resendReq' = [resendReq EXCEPT ![r].pc = "cleanup"]
    /\ UNCHANGED <<now, ticks, verification_tokens, blacklisted_tokens, nextToken,
                   issued, logins, mails, signupReq, verifyReq,
                   resetFlow, sessionFlow,
                   inMemory, passwordSet,
                   integrations>>

\* verification_tokens.delete_many({"user_id": str(user_id)})
ResendCleanup(r) ==
    /\ resendReq[r].pc = "cleanup"
    /\ verification_tokens' =
           DeleteMany(verification_tokens, str(resendReq[r].uid))
    /\ resendReq' = [resendReq EXCEPT ![r] =
           ResendDone(r, "200 Verification email sent successfully")]
    /\ UNCHANGED <<now, ticks, users, blacklisted_tokens, nextToken, issued,
                   logins, mails, signupReq, verifyReq,
                   resetFlow, sessionFlow,
                   inMemory, passwordSet,
                   integrations>>

\* ------------------------------------------------ verification lifecycle
\* GET /verify-email/{token}/status: users.find_one({"verification_token":
\* token}), with no test of the token's age.  ticks and reqs record the
\* moment of the answer; the handler never reads them.
check_verification_status(token) ==
    /\ LET u == FindUser(LAMBDA d : d.verification_token = token)
           resp == IF u = NoId THEN "invalid"
                   ELSE IF users[u].is_verified THEN "already_verified"
                   ELSE "pending"
       IN last' = [op |-> "verify_status", status |-> resp, token |-> token,
                   revoked |-> FALSE, ticks |-> ticks,
                   reqs |-> <<verifyReq, resendReq>>]
    /\ UNCHANGED <<now, ticks, dbVars, nextToken, issued, logins, mails,
                   signupReq, verifyReq, resendReq, resetFlow, authReq,
                   loginLog, refreshes, revokedEver,
                   inMemory, passwordSet,
                   integrations>>

VerifyTicks == {7200, 14400, 86400}

\* the clock of this flow steps by hours and a handler answers within
\* seconds: the steps fall between requests
VerifyTick(d) ==
    /\ \A r \in 1..MaxVerifyReqs : ~InFlight(verifyReq[r])
    /\ \A r \in 1..MaxResendReqs : ~InFlight(resendReq[r])
    /\ Tick(d)

NextVerify ==
    \/ \E d \in VerifyTicks : VerifyTick(d)
    \/ ExpireVerificationToken
    \/ \E r \in 1..MaxVerifyReqs, t \in 1..MaxTokens : VerifyStart(r, t)
    \/ \E r \in 1..MaxVerifyReqs : VerifyFindUser(r)
    \/ \E r \in 1..MaxVerifyReqs : VerifyStoreSeen(r)
    \/ \E r \in 1..MaxVerifyReqs : VerifyUpdate(r)
    \/ \E r \in 1..MaxVerifyReqs : VerifyStore(r)
    \/ \E r \in 1..MaxResendReqs, ok \in BOOLEAN : ResendStart(r, ok)
    \/ \E r \in 1..MaxResendReqs : ResendUpdate(r)
    \/ \E r \in 1..MaxResendReqs : ResendCleanup(r)

SpecVerify == InitVerify /\ [][NextVerify]_vars

NextStatus ==
    \/ \E d \in VerifyTicks : VerifyTick(d)
    \/ \E t \in 1..MaxTokens : check_verification_status(t)
    \/ \E r \in 1..MaxVerifyReqs, t \in 1..MaxTokens : VerifyStart(r, t)
    \/ \E r \in 1..MaxVerifyReqs : VerifyFindUser(r)
    \/ \E r \in 1..MaxVerifyReqs : VerifyStoreSeen(r)
    \/ \E r \in 1..MaxVerifyReqs : VerifyUpdate(r)
    \/ \E r \in 1..MaxVerifyReqs : VerifyStore(r)
    \/ \E r \in 1..MaxResendReqs : ResendStart(r, TRUE)
    \/ \E r \in 1..MaxResendReqs : ResendUpdate(r)
    \/ \E r \in 1..MaxResendReqs : ResendCleanup(r)

\* the status endpoint next to the verification and resend handlers
SpecStatus == InitVerify /\ [][NextStatus]_vars

\* ------------------------------------ resend requests that overlap
InitResend == LoggedInWith("a@x.com", "Secret1!", MaxOverlappingResends)

NextResend ==
    \/ \E r \in 1..MaxOverlappingResends, ok \in BOOLEAN : ResendStart(r, ok)
    \/ \E r \in 1..MaxOverlappingResends : ResendUpdate(r)
    \/ \E r \in 1..MaxOverlappingResends : ResendCleanup(r)
    \/ \E r \in 1..MaxVerifyReqs, t \in 1..MaxTokens : VerifyStart(r, t)
    \/ \E r \in 1..MaxVerifyReqs : VerifyFindUser(r)
    \/ \E r \in 1..MaxVerifyReqs : VerifyStoreSeen(r)
    \/ \E r \in 1..MaxVerifyReqs : VerifyUpdate(r)
    \/ \E r \in 1..MaxVerifyReqs : VerifyStore(r)

\* the handlers of the verification flow, every request started at the same
\* hour, with resend requests of one user in flight together
SpecResend == InitResend /\ [][NextResend]_vars

\* ------------------------------------------------- POST /forgot-password
GenericForgotAnswer == "200 If your email is registered, you will receive a password reset link."

\* create_password_reset_token up to its update: get_user_by_email, the two
\* early returns, then the token and its expiry (now + 1 hour)
ForgotStart(r, email) ==
    /\ forgotReq[r].pc = "idle"
    /\ SlotsBeforeTaken(forgotReq, r)
    /\ LET u == get_user_by_email(email)
       IN IF u = NoId \/ users[u].password_hash = NoHash
          THEN /\ forgotReq' = [forgotReq EXCEPT ![r] =
                      [@ EXCEPT !.pc = "done", !.email = email,
                                !.resp = GenericForgotAnswer]]
               /\ UNCHANGED nextToken
          ELSE /\ nextToken <= MaxTokens
               /\ nextToken' = nextToken + 1
               /\ forgotReq' = [forgotReq EXCEPT ![r] =
                      [@ EXCEPT !.pc = "update", !.email = email, !.uid = u,
                                !.token = nextToken,
                                !.expires = now + ResetValidity]]
    /\ UNCHANGED <<now, ticks, dbVars, issued, logins, mails,
                   signupReq, verifyReq, resendReq, resetReq, sessionFlow,
                   inMemory, passwordSet,
                   integrations>>

\* users_collection.update_one({"_id": user["_id"]}, {"$set": {token, expires}}),
\* then, in forgot_password, get_user_by_email for the name and
\* send_password_reset_email; the mail touches no collection, so it is taken
\* in the same step as the update
ForgotUpdateTokenOnly(r, email_sent) ==
    /\ forgotReq[r].pc = "update"
    /\ users' = [users EXCEPT ![forgotReq[r].uid] =
           [@ EXCEPT !.password_reset_token = forgotReq[r].token]]
    /\ IF email_sent
       THEN /\ mails' = AddMail("password_reset", forgotReq[r].email)
            /\ forgotReq' = [forgotReq EXCEPT ![r] =
                   [@ EXCEPT !.pc = "done", !.resp = GenericForgotAnswer]]
       ELSE /\ forgotReq' = [forgotReq EXCEPT ![r] =
                   [@ EXCEPT !.pc = "done",
                             !.resp = "500 Failed to send password reset email. Please try again."]]
            /\ UNCHANGED mails
    /\ UNCHANGED <<now, ticks, verification_tokens, blacklisted_tokens, nextToken,
                   issued, logins, signupReq, verifyReq, resendReq,
                   resetReq, sessionFlow,
                   inMemory, passwordSet,
                   integrations>>

ForgotUpdate(r, email_sent) ==
    /\ forgotReq[r].pc = "update"
    /\ users' = [users EXCEPT ![forgotReq[r].uid] =
           [@ EXCEPT !.password_reset_token = forgotReq[r].token,
                     !.password_reset_expires = forgotReq[r].expires]]
    /\ IF email_sent
       THEN /\ mails' = AddMail("password_reset", forgotReq[r].email)
            /\ forgotReq' = [forgotReq EXCEPT ![r] =
                   [@ EXCEPT !.pc = "done", !.resp = GenericForgotAnswer]]
       ELSE /\ forgotReq' = [forgotReq EXCEPT ![r] =
                   [@ EXCEPT !.pc = "done",
                             !.resp = "500 Failed to send password reset email. Please try again."]]
            /\ UNCHANGED mails
    /\ UNCHANGED <<now, ticks, verification_tokens, blacklisted_tokens, nextToken,
                   issued, logins, signupReq, verifyReq, resendReq,
                   resetReq, sessionFlow,
                   inMemory, passwordSet,
                   integrations>>

\* -------------------------------------------------- POST /reset-password
get_user_by_reset_token_any_age(token) ==
    FindUser(LAMBDA d : d.password_reset_token = token)

\* find_one({"password_reset_token": token, "password_reset_expires": {"$gt": now}})
get_user_by_reset_token(token) ==
    FindUser(LAMBDA d : /\ d.password_reset_token = token
                        /\ d.password_reset_expires > now)

ResetStart(r, token, new_password) ==
    /\ resetReq[r].pc = "idle"
    /\ SlotsBeforeTaken(resetReq, r)
    /\ token < nextToken
    /\ LET u == get_user_by_reset_token(token)
           q == [resetReq[r] EXCEPT
                   !.token = token, !.new_password = new_password,
                   !.live = \E v \in DOMAIN users :
                               /\ users[v].password_reset_token = token
                               /\ users[v].password_reset_expires > now]
       IN IF u = NoId
          THEN resetReq' = [resetReq EXCEPT ![r] =
                   [q EXCEPT !.pc = "done", !.resp = "400 Invalid or expired token"]]
          ELSE resetReq' = [resetReq EXCEPT ![r] =
                   [q EXCEPT !.pc = "update", !.uid = u]]
    /\ UNCHANGED <<now, ticks, dbVars, nextToken, issued, logins, mails,
                   signupReq, verifyReq, resendReq, forgotReq, sessionFlow,
                   inMemory, passwordSet,
                   integrations>>

\* find_one_and_update({"_id": user["_id"]}, {"$set": {hash, token: None, expires: None}}),
\* then, in password_reset, send_password_reset_notification, whose failure
\* does not fail the request; the mail touches no collection, so it is taken
\* in the same step
ResetUpdate(r, email_sent) ==
    /\ resetReq[r].pc = "update"
    /\ users' = [users EXCEPT ![resetReq[r].uid] =
           [@ EXCEPT !.password_hash = get_password_hash(resetReq[r].new_password),
                     !.password_reset_token = NoToken,
                     !.password_reset_expires = NoTime]]
    /\ passwordSet' = [passwordSet EXCEPT ![resetReq[r].uid] =
                          resetReq[r].new_password]
    /\ mails' = IF email_sent
                THEN AddMail("password_reset_notification",
                             users[resetReq[r].uid].email)
                ELSE mails
    /\ resetReq' = [resetReq EXCEPT ![r] =
           [@ EXCEPT !.pc = "done",
                     !.resp = "200 Your password has been reset successfully"]]
    /\ UNCHANGED <<now, ticks, verification_tokens, blacklisted_tokens, nextToken,
                   issued, logins, signupReq, verifyReq, resendReq,
                   forgotReq, sessionFlow,
                   inMemory,
                   integrations>>

\* --------------------------------------------------- password-reset flow
ResetTicks == {1800, 3600}
NewPasswords == {"NewPass9!", "Other10!"}

NextReset ==
    \/ \E d \in ResetTicks : Tick(d)
    \/ \E r \in 1..MaxForgotReqs, e \in Emails : ForgotStart(r, e)
    \/ \E r \in 1..MaxForgotReqs, ok \in BOOLEAN : ForgotUpdate(r, ok)
    \/ \E r \in 1..MaxResetReqs, t \in 1..MaxTokens, p \in NewPasswords :
          ResetStart(r, t, p)
    \/ \E r \in 1..MaxResetReqs, ok \in BOOLEAN : ResetUpdate(r, ok)

SpecReset == InitToken /\ [][NextReset]_vars

\* --------------------------- forgot-password requests that supersede
InitSupersede == SignedUpWith("a@x.com", "Secret1!", MaxSupersedingForgots)

NextSupersede ==
    \/ \E r \in 1..MaxSupersedingForgots : ForgotStart(r, "a@x.com")
    \/ \E r \in 1..MaxSupersedingForgots : ForgotUpdate(r, TRUE)
    \/ \E r \in 1..MaxResetReqs, t \in 1..MaxTokens :
          ResetStart(r, t, "NewPass9!")
    \/ \E r \in 1..MaxResetReqs : ResetUpdate(r, TRUE)

\* several forgot-password requests of one user, and the resets that follow
SpecSupersede == InitSupersede /\ [][NextSupersede]_vars

\* ------------------------------------------------ revocation store, TTL
\* TTL index on blacklisted_tokens.created_at (expireAfterSeconds=86400)
ExpireBlacklistedToken ==
    /\ \E b \in blacklisted_tokens :
          /\ b.created_at + BlacklistTTL <= now
          /\ blacklisted_tokens' = blacklisted_tokens \ {b}
    /\ UNCHANGED <<now, ticks, users, verification_tokens, nextToken, issued,
                   logins, mails, signupReq, verifyReq, resendReq, resetFlow,
                   sessionFlow,
                   inMemory, passwordSet,
                   integrations>>

Bearers == issued \cup {Garbage}

Answer(op, status, token) ==
    [op |-> op, status |-> status,
     revoked |-> \E b \in blacklisted_tokens : b.token = token]

\* ----------------------------------------------------------- POST /logout
LogoutWithoutUniqueIndex ==
    /\ \E token \in issued :
          /\ token \in revokedEver \/ Cardinality(revokedEver) < MaxLogouts
          /\ blacklisted_tokens' =
                blacklisted_tokens \cup {[token |-> token, created_at |-> now]}
          /\ revokedEver' = revokedEver \cup {token}
          /\ last' = Answer("logout", 200, token)
    /\ UNCHANGED <<now, ticks, users, verification_tokens, nextToken, issued,
                   logins, mails, signupReq, verifyReq, resendReq, resetFlow,
                   authReq, loginLog, refreshes,
                   inMemory, passwordSet,
                   integrations>>

\* insert_one({"token", "created_at"}); the unique index on token rejects a
\* second entry and the handler swallows that error.  The token logged out
\* is one a session holds.
Logout ==
    /\ \E token \in issued :
          /\ token \in revokedEver \/ Cardinality(revokedEver) < MaxLogouts
          /\ blacklisted_tokens' =
                IF \E b \in blacklisted_tokens : b.token = token
                THEN blacklisted_tokens
                ELSE blacklisted_tokens \cup {[token |-> token, created_at |-> now]}
          /\ revokedEver' = revokedEver \cup {token}
          /\ last' = Answer("logout", 200, token)
    /\ UNCHANGED <<now, ticks, users, verification_tokens, nextToken, issued,
                   logins, mails, signupReq, verifyReq, resendReq, resetFlow,
                   authReq, loginLog, refreshes,
                   inMemory, passwordSet,
                   integrations>>

\* ------------------------------------- middleware.auth.get_current_user
is_blacklisted_never(token) == FALSE

\* blacklisted_tokens.find_one({"token": token})
is_blacklisted(token) == \E b \in blacklisted_tokens : b.token = token

\* what reaches the validator besides the tokens handed out: no token at
\* all, a string that is no JWT, a signed token without sub, and a signed
\* token whose subject has no document in users
Empty == [sub |-> NoId, exp |-> -1, sig |-> FALSE]
Unclaimed == [sub |-> NoId, exp |-> RefreshLifetime, sig |-> TRUE]
Orphan == [sub |-> str(ObjectIdOf(0)), exp |-> RefreshLifetime, sig |-> TRUE]
Presented == Bearers \cup {Empty, Unclaimed, Orphan}

AuthStartDecodeFirst ==
    /\ authReq.pc \in {"idle", "done"}
    /\ \E token \in Presented :
       LET q == [IdleAuth EXCEPT
                   !.token = token,
                   !.revoked = token \in {b.token : b \in blacklisted_tokens},
                   !.wasRevoked = token \in revokedEver]
       IN IF token = Empty
          THEN authReq' = [q EXCEPT !.pc = "done",
                                    !.resp = "401 No authentication token provided"]
          ELSE IF jose_decode(token) = "expired"
          THEN authReq' = [q EXCEPT !.pc = "done", !.resp = "401 Token has expired"]
          ELSE IF jose_decode(token) = "invalid"
          THEN authReq' = [q EXCEPT !.pc = "done", !.resp = "401 Invalid token format"]
          ELSE IF is_blacklisted(token)
          THEN authReq' = [q EXCEPT !.pc = "done",
                                    !.resp = "401 Token has been invalidated"]
          ELSE IF token.sub = NoId
          THEN authReq' = [q EXCEPT !.pc = "done", !.resp = "401 Invalid token claims"]
          ELSE authReq' = [q EXCEPT !.pc = "find_user", !.sub = token.sub]
    /\ UNCHANGED <<now, ticks, dbVars, nextToken, issued, logins, mails,
                   signupReq, verifyReq, resendReq, resetFlow, last, loginLog,
                   refreshes, revokedEver,
                   inMemory, passwordSet,
                   integrations>>

\* the check for a missing token, the blacklist lookup, then jwt.decode and
\* the sub claim.  The validator only reads, so its requests are taken one
\* after the other.
AuthStart ==
    /\ authReq.pc \in {"idle", "done"}
    /\ \E token \in Presented :
       LET q == [IdleAuth EXCEPT
                   !.token = token,
                   !.revoked = token \in {b.token : b \in blacklisted_tokens},
                   !.wasRevoked = token \in revokedEver]
       IN IF token = Empty
          THEN authReq' = [q EXCEPT !.pc = "done",
                                    !.resp = "401 No authentication token provided"]
          ELSE IF is_blacklisted(token)
          THEN authReq' = [q EXCEPT !.pc = "done",
                                    !.resp = "401 Token has been invalidated"]
          ELSE IF jose_decode(token) = "expired"
          THEN authReq' = [q EXCEPT !.pc = "done", !.resp = "401 Token has expired"]
          ELSE IF jose_decode(token) = "invalid"
          THEN authReq' = [q EXCEPT !.pc = "done", !.resp = "401 Invalid token format"]
          ELSE IF token.sub = NoId
          THEN authReq' = [q EXCEPT !.pc = "done", !.resp = "401 Invalid token claims"]
          ELSE authReq' = [q EXCEPT !.pc = "find_user", !.sub = token.sub]
    /\ UNCHANGED <<now, ticks, dbVars, nextToken, issued, logins, mails,
                   signupReq, verifyReq, resendReq, resetFlow, last, loginLog,
                   refreshes, revokedEver,
                   inMemory, passwordSet,
                   integrations>>

\* users.find_one({"_id": ObjectId(user_id)})
AuthFindUser ==
    /\ authReq.pc = "find_user"
    /\ authReq' = [authReq EXCEPT
                     !.pc = "done",
                     !.resp = IF ObjectId(authReq.sub) \in DOMAIN users
                              THEN "200" ELSE "401 User not found"]
    /\ UNCHANGED <<now, ticks, dbVars, nextToken, issued, logins, mails,
                   signupReq, verifyReq, resendReq, resetFlow, last, loginLog,
                   refreshes, revokedEver,
                   inMemory, passwordSet,
                   integrations>>

\* ----------------------------------------- routers.auth.get_current_user
\* jwt.decode, then get_user_by_id with the sub string as it is
RouterGetCurrentUser ==
    /\ \E token \in Bearers :
          last' = Answer("router_get_current_user",
                         IF /\ pyjwt_decode(token) = "ok"
                            /\ token.sub # NoId
                            /\ get_user_by_id(token.sub) # NoId
                         THEN 200 ELSE 401,
                         token)
    /\ UNCHANGED <<now, ticks, dbVars, nextToken, issued, logins, mails,
                   signupReq, verifyReq, resendReq, resetFlow, authReq, loginLog,
                   refreshes, revokedEver,
                   inMemory, passwordSet,
                   integrations>>

\* ------------------------------------------------------ GET /api/profile/me
GetProfile ==
    /\ \E token \in Bearers :
          last' = Answer("profile_me",
                         IF pyjwt_decode(token) # "ok" \/ token.sub = NoId THEN 401
                         ELSE IF ObjectId(token.sub) \notin DOMAIN users THEN 404
                         ELSE 200,
                         token)
    /\ UNCHANGED <<now, ticks, dbVars, nextToken, issued, logins, mails,
                   signupReq, verifyReq, resendReq, resetFlow, authReq, loginLog,
                   refreshes, revokedEver,
                   inMemory, passwordSet,
                   integrations>>

\* ---------------------------------------------------- POST /refresh-token
RefreshToken ==
    /\ \E refresh_token \in Bearers :
          IF /\ pyjwt_decode(refresh_token) = "ok"
             /\ refresh_token.sub # NoId
             /\ ObjectId(refresh_token.sub) \in DOMAIN users
          THEN /\ refreshes < MaxRefreshes
               /\ issued' = issued \cup
                      generate_auth_tokens(ObjectId(refresh_token.sub))
               /\ refreshes' = refreshes + 1
               /\ last' = Answer("refresh_token", 200, refresh_token)
          ELSE /\ last' = Answer("refresh_token", 401, refresh_token)
               /\ UNCHANGED <<issued, refreshes>>
    /\ UNCHANGED <<now, ticks, dbVars, nextToken, logins, mails,
                   signupReq, verifyReq, resendReq, resetFlow, authReq, loginLog,
                   revokedEver,
                   inMemory, passwordSet,
                   integrations>>

\* -------------------------------------------------------- session tokens
TokenTicks == {86400}

NextToken ==
    \/ \E d \in TokenTicks : Tick(d)
    \/ ExpireBlacklistedToken
    \/ \E c \in {"10.0.0.1"} : LoginRegistered(c)
    \/ Logout
    \/ AuthStart
    \/ AuthFindUser
    \/ RefreshToken

\* token lifetimes, revocation and its TTL, the validator and the refresh
SpecToken == InitToken /\ [][NextToken]_vars

NextBearer ==
    \/ \E c \in {"10.0.0.1"} : LoginRegistered(c)
    \/ Logout
    \/ AuthStart
    \/ AuthFindUser
    \/ RouterGetCurrentUser
    \/ GetProfile
    \/ RefreshToken
    \/ \E r \in 1..MaxResendReqs, ok \in BOOLEAN : ResendStart(r, ok)
    \/ \E r \in 1..MaxResendReqs : ResendUpdate(r)
    \/ \E r \in 1..MaxResendReqs : ResendCleanup(r)

\* every endpoint that authenticates by the Authorization bearer token
SpecBearer == InitToken /\ [][NextBearer]_vars

\* --------------------------------------- POST /api/profile/me/change-password
AllPasswords == Passwords \cup NewPasswords

\* get_current_user of the middleware, users.find_one by ObjectId, the check
\* of the old password, then find_one_and_update of password_hash; an
\* account without password_hash makes verify_password raise (500)
ChangePassword(old_password, new_password) ==
    /\ \E token \in issued :
       LET passes == /\ ~is_blacklisted(token)
                     /\ jose_decode(token) = "ok"
                     /\ token.sub # NoId
                     /\ ObjectId(token.sub) \in DOMAIN users
           u == ObjectId(token.sub)
       IN IF ~passes
          THEN /\ last' = Answer("change_password", 401, token)
               /\ UNCHANGED <<users, passwordSet>>
          ELSE IF users[u].password_hash = NoHash
          THEN /\ last' = Answer("change_password", 500, token)
               /\ UNCHANGED <<users, passwordSet>>
          ELSE IF ~verify_password(old_password, users[u].password_hash)
          THEN /\ last' = Answer("change_password", 400, token)
               /\ UNCHANGED <<users, passwordSet>>
          ELSE /\ users' = [users EXCEPT ![u].password_hash =
                               get_password_hash(new_password)]
               /\ passwordSet' = [passwordSet EXCEPT ![u] = new_password]
               /\ last' = Answer("change_password", 200, token)
    /\ UNCHANGED <<now, ticks, verification_tokens, blacklisted_tokens,
                   nextToken, issued, logins, mails,
                   signupReq, verifyReq, resendReq, resetFlow,
                   authReq, loginLog, refreshes, revokedEver, inMemory,
                   integrations>>

\* ------------------------------------------ passwords and authentication
AuthCheck(client, email, password) ==
    /\ LoginAttempts < MaxAuthChecks
    /\ Login(client, email, password)

NextAuth ==
    \/ \E r \in 1..MaxForgotReqs : ForgotStart(r, "a@x.com")
    \/ \E r \in 1..MaxForgotReqs : ForgotUpdate(r, TRUE)
    \/ \E r \in 1..MaxResetReqs, t \in 1..MaxTokens :
          ResetStart(r, t, "NewPass9!")
    \/ \E r \in 1..MaxResetReqs : ResetUpdate(r, TRUE)
    \/ \E o \in AllPasswords, n \in NewPasswords : ChangePassword(o, n)
    \/ \E e \in Emails, p \in AllPasswords : AuthCheck("10.0.0.1", e, p)

\* login against passwords replaced by reset-password and change-password
SpecAuth == InitToken /\ [][NextAuth]_vars

\* ------------------------------------------------------ payment webhooks
\* the stripe package is installed, so the import of routers.webhook succeeded
STRIPE_ENABLED == TRUE
STRIPE_WEBHOOK_SECRET == "whsec"
RAZORPAY_WEBHOOK_SECRET == "rzp-secret"

NoHeader == <<>>

\* hmac.new(key, payload, sha256).hexdigest(), and Stripe's signed payload
Hmac(key, payload) == <<"hmac", key, payload>>

\* what a webhook body carries: is it the payment event of the provider, does
\* the provider confirm the payment, and metadata.user_id (a JSON string)
Payloads == [payment_event : BOOLEAN, paid : BOOLEAN,
             user_id : {str(ObjectIdOf(1))}]

\* the signature header: missing, made with the secret or with another key,
\* over this body or over another one
Headers == {NoHeader} \cup
           {Hmac(k, p) : k \in {STRIPE_WEBHOOK_SECRET, RAZORPAY_WEBHOOK_SECRET, "guess"},
                         p \in Payloads}

\* stripe.Webhook.construct_event raises on a missing or wrong signature
verify_stripe_signature(payload, sig_header) ==
    /\ STRIPE_ENABLED
    /\ sig_header = Hmac(STRIPE_WEBHOOK_SECRET, payload)

razorpay_signature_present(payload, signature) == signature # NoHeader

\* signature == hmac.new(RAZORPAY_WEBHOOK_SECRET, payload, sha256).hexdigest()
razorpay_signature_ok(payload, signature) ==
    signature = Hmac(RAZORPAY_WEBHOOK_SECRET, payload)

\* update_subscription: users.find_one({"_id": user_id}) with the string of
\* the metadata, then update_one of the subscription
update_subscription(user_id) ==
    IF user_id \in DOMAIN users
    THEN (user_id :> "active") @@ subscription
    ELSE subscription

\* process_payment_webhook: the provider's confirmation of the payment, then
\* update_subscription; a failure is answered 400
Processed(provider, signature, payload) ==
    /\ webhookLog' = Append(webhookLog,
           [provider |-> provider, signature |-> signature, payload |-> payload,
            reached |-> payload.payment_event,
            status |-> IF payload.payment_event /\ ~payload.paid
                       THEN 400 ELSE 200])
    /\ subscription' = IF payload.payment_event /\ payload.paid
                       THEN update_subscription(payload.user_id)
                       ELSE subscription

Refused(provider, signature, payload, status) ==
    /\ webhookLog' = Append(webhookLog,
           [provider |-> provider, signature |-> signature, payload |-> payload,
            reached |-> FALSE, status |-> status])
    /\ UNCHANGED subscription

\* POST /api/webhooks/stripe
stripe_webhook(sig_header, payload) ==
    /\ Len(webhookLog) < MaxWebhooks
    /\ IF ~STRIPE_ENABLED
       THEN Refused("stripe", sig_header, payload, 501)
       ELSE IF ~verify_stripe_signature(payload, sig_header)
       THEN Refused("stripe", sig_header, payload, 400)
       ELSE Processed("stripe", sig_header, payload)
    /\ UNCHANGED <<now, ticks, dbVars, nextToken, issued, logins, mails,
                   signupReq, verifyReq, resendReq, resetFlow, sessionFlow,
                   inMemory, passwordSet, mailer, sendLog>>

\* POST /api/webhooks/razorpay
razorpay_webhook(signature, payload) ==
    /\ Len(webhookLog) < MaxWebhooks
    /\ IF ~razorpay_signature_ok(payload, signature)
       THEN Refused("razorpay", signature, payload, 400)
       ELSE Processed("razorpay", signature, payload)
    /\ UNCHANGED <<now, ticks, dbVars, nextToken, issued, logins, mails,
                   signupReq, verifyReq, resendReq, resetFlow, sessionFlow,
                   inMemory, passwordSet, mailer, sendLog>>

NextWebhook ==
    \/ \E h \in Headers, p \in Payloads : stripe_webhook(h, p)
    \/ \E h \in Headers, p \in Payloads : razorpay_webhook(h, p)

\* webhook requests against the database of one signed-up user
SpecWebhook == InitToken /\ [][NextWebhook]_vars

\* ------------------------------------------------- POST /me/deactivate
\* deactivate_user_account: current_user["_id"] is the string form that
\* get_current_user stored, and deactivate_account filters users on it, so
\* update_one matches nothing; the HTTPException(400) raised for that is
\* caught by the handler's own except Exception and answered 500.
deactivate_user_account ==
    /\ \E u \in DOMAIN users :
          LET user_id == str(u)
              matched == {d \in DOMAIN users : d = user_id}
          IN IF matched = {}
             THEN /\ last' = [op |-> "deactivate", status |-> 500,
                              revoked |-> FALSE]
                  /\ UNCHANGED users
             ELSE /\ users' = [d \in DOMAIN users |->
                                IF d \in matched
                                THEN [users[d] EXCEPT !.is_active = FALSE]
                                ELSE users[d]]
                  /\ last' = [op |-> "deactivate", status |-> 200,
                              revoked |-> FALSE]
    /\ UNCHANGED <<now, ticks, verification_tokens, blacklisted_tokens,
                   nextToken, issued, logins, mails,
                   signupReq, verifyReq, resendReq, resetFlow, authReq,
                   loginLog, refreshes, revokedEver,
                   inMemory, passwordSet,
                   integrations>>

\* is_active set to false on the document itself, by an operator or a
\* maintenance script: the state authenticate_user's "Account is disabled"
\* answers to
DisableInDatabase ==
    /\ \E u \in DOMAIN users :
          /\ users[u].is_active
          /\ users' = [users EXCEPT ![u].is_active = FALSE]
    /\ UNCHANGED <<now, ticks, verification_tokens, blacklisted_tokens,
                   nextToken, issued, logins, mails,
                   signupReq, verifyReq, resendReq, resetFlow, sessionFlow,
                   inMemory, passwordSet,
                   integrations>>

\* ------------------------------------------------- EmailService, sending
STOP_AFTER_ATTEMPT == 3

\* send_email_async: the template is rendered and _send is called
send_email_async ==
    /\ mailer.pc = "idle"
    /\ Len(sendLog) < MaxSends
    /\ mailer' = [IdleMailer EXCEPT !.pc = "send"]
    /\ UNCHANGED <<now, ticks, dbVars, nextToken, issued, logins, mails,
                   signupReq, verifyReq, resendReq, resetFlow, sessionFlow,
                   inMemory, passwordSet, webhookLog, subscription, sendLog>>

Finished(result, smtp_attempts) ==
    /\ sendLog' = Append(sendLog, [calls |-> mailer.calls + 1,
                                   smtp_attempts |-> smtp_attempts,
                                   result |-> result])
    /\ mailer' = IdleMailer

\* one call of _send under @retry(stop=stop_after_attempt(3)): tenacity calls
\* again only when the call raises.  _create_message may raise; _send_async
\* and _send_sync catch every exception of the SMTP exchange and return
\* False, which _send returns as its result.
Send(outcome) ==
    /\ mailer.pc = "send"
    /\ CASE outcome = "raises" ->
              IF mailer.calls + 1 >= STOP_AFTER_ATTEMPT
              THEN \* RetryError, caught by send_email_async
                   Finished(FALSE, mailer.smtp_attempts)
              ELSE /\ mailer' = [mailer EXCEPT !.calls = @ + 1]
                   /\ UNCHANGED sendLog
         [] outcome = "smtp_failed" ->
              Finished(FALSE, mailer.smtp_attempts + 1)
         [] outcome = "sent" ->
              Finished(TRUE, mailer.smtp_attempts + 1)
    /\ UNCHANGED <<now, ticks, dbVars, nextToken, issued, logins, mails,
                   signupReq, verifyReq, resendReq, resetFlow, sessionFlow,
                   inMemory, passwordSet, webhookLog, subscription>>

NextMail ==
    \/ send_email_async
    \/ \E outcome \in {"raises", "smtp_failed", "sent"} : Send(outcome)

\* emails sent one after the other by the singleton EmailService
SpecMail == Init /\ [][NextMail]_vars

\* ------------------------------------------------------ check_rate_limit
RATE_LIMIT_DURATION == 60
RATE_LIMIT_ATTEMPTS == 5

StillCountedInclusive(t) == now - t <= RATE_LIMIT_DURATION

\* [t for t in rate_limits[client_ip] if now - t < RATE_LIMIT_DURATION]
StillCounted(t) == now - t < RATE_LIMIT_DURATION

RateCalls == SumLen(rateLog, Clients)

CheckRateLimitRecordingDenied(client_ip) ==
    /\ RateCalls < MaxRateCalls
    /\ LET kept == SelectSeq(rate_limits[client_ip], StillCounted)
       IN /\ rate_limits' = [rate_limits EXCEPT ![client_ip] = Append(kept, now)]
          /\ rateLog' = [rateLog EXCEPT ![client_ip] =
                 Append(@, [t |-> now, ok |-> Len(kept) < RATE_LIMIT_ATTEMPTS])]
    /\ UNCHANGED <<now, ticks, dbVars, nextToken, issued, logins, mails,
                   signupReq, verifyReq, resendReq, resetFlow, sessionFlow,
                   codes, used_codes, googleReq, passwordSet,
                   integrations>>

\* check_rate_limit(client_ip): drop the old entries, refuse at 5, else
\* append now and accept
CheckRateLimit(client_ip) ==
    /\ RateCalls < MaxRateCalls
    /\ LET kept == SelectSeq(rate_limits[client_ip], StillCounted)
       IN IF Len(kept) >= RATE_LIMIT_ATTEMPTS
          THEN /\ rate_limits' = [rate_limits EXCEPT ![client_ip] = kept]
               /\ rateLog' = [rateLog EXCEPT ![client_ip] =
                      Append(@, [t |-> now, ok |-> FALSE])]
          ELSE /\ rate_limits' = [rate_limits EXCEPT ![client_ip] =
                      Append(kept, now)]
               /\ rateLog' = [rateLog EXCEPT ![client_ip] =
                      Append(@, [t |-> now, ok |-> TRUE])]
    /\ UNCHANGED <<now, ticks, dbVars, nextToken, issued, logins, mails,
                   signupReq, verifyReq, resendReq, resetFlow, sessionFlow,
                   codes, used_codes, googleReq, passwordSet,
                   integrations>>

\* the limiter's clock, time.time(), in steps of a second and of a second
\* less than the window
RateTicks == {1, 59}

NextRate ==
    \/ \E d \in RateTicks : Advance(d, MaxRateTicks)
    \/ \E c \in Clients : CheckRateLimit(c)

\* the rate limiter called directly, from the state right after import
SpecRate == Init /\ [][NextRate]_vars

\* ---------------------------------------------------- POST /social/google
CODE_TTL == 300

CodeExpiredAtWindow(claimed_at) == now - claimed_at >= CODE_TTL

\* now - time > timedelta(minutes=5)
CodeExpired(claimed_at) == now - claimed_at > CODE_TTL

\* CodeTracker.cleanup: delete every entry older than 5 minutes
cleanup ==
    [c \in Codes |-> IF codes[c] # NoTime /\ CodeExpired(codes[c])
                     THEN NoTime ELSE codes[c]]

\* the code check, then CodeTracker.add_code under its lock
GoogleStart(r, code) ==
    /\ googleReq[r].pc = "idle"
    /\ SlotsBeforeTaken(googleReq, r)
    /\ LET q == [googleReq[r] EXCEPT
                   !.code = code, !.t = now,
                   !.quiet = \A x \in 1..MaxGoogleReqs :
                                googleReq[x].pc \in {"idle", "done"}]
       IN IF code = ""
          THEN /\ googleReq' = [googleReq EXCEPT ![r] =
                      [q EXCEPT !.pc = "done",
                                !.resp = "400 Authorization code is required"]]
               /\ UNCHANGED codes
          ELSE IF codes[code] # NoTime
          THEN /\ googleReq' = [googleReq EXCEPT ![r] =
                      [q EXCEPT !.pc = "done",
                                !.resp = "409 Request already being processed"]]
               /\ UNCHANGED codes
          ELSE /\ codes' = [codes EXCEPT ![code] = now]
               /\ googleReq' = [googleReq EXCEPT ![r] =
                      [q EXCEPT !.pc = "exchange", !.claimed = TRUE]]
    /\ UNCHANGED <<now, ticks, dbVars, nextToken, issued, logins, mails,
                   signupReq, verifyReq, resendReq, resetFlow, sessionFlow,
                   rate_limits, rateLog, used_codes, passwordSet,
                   integrations>>

GoogleEmails == {"a@x.com", "g@x.com"}

\* email.split("@")[0] on the addresses the requests carry
LocalPart(email) ==
    CASE email \in {"a@x.com", "a@y.com"} -> "a"
      [] email = "b@x.com" -> "b"
      [] email = "g@x.com" -> "g"
      [] OTHER -> email

\* handle_google_auth: exchange_code_for_token skips the provider for a code
\* in _used_codes, else posts the code to the provider (outcome "" is a
\* refusal, else the email of the account); then authenticate_social_user
\* looks the email up.  A failure answers 400 and runs the finally cleanup.
GoogleExchange(r, outcome) ==
    /\ googleReq[r].pc = "exchange"
    /\ IF googleReq[r].code \in used_codes
       THEN /\ googleReq' = [googleReq EXCEPT ![r] =
                   [@ EXCEPT !.pc = "done",
                             !.resp = "400 Failed to exchange code for tokens"]]
            /\ codes' = cleanup
            /\ UNCHANGED used_codes
       ELSE IF outcome = ""
       THEN /\ googleReq' = [googleReq EXCEPT ![r] =
                   [@ EXCEPT !.pc = "done", !.exchanged = TRUE,
                             !.resp = "400 Failed to exchange code for tokens"]]
            /\ codes' = cleanup
            /\ UNCHANGED used_codes
       ELSE /\ used_codes' = used_codes \cup {googleReq[r].code}
            /\ googleReq' = [googleReq EXCEPT ![r] =
                   [@ EXCEPT !.pc = "write", !.exchanged = TRUE,
                             !.email = outcome,
                             !.uid = get_user_by_email(outcome)]]
            /\ UNCHANGED codes
    /\ UNCHANGED <<now, ticks, dbVars, nextToken, issued, logins, mails,
                   signupReq, verifyReq, resendReq, resetFlow, sessionFlow,
                   rate_limits, rateLog, passwordSet,
                   integrations>>

\* authenticate_social_user after its lookup: find_one_and_update of the
\* login bookkeeping fields (none of them is read by another handler) or
\* insert_one of a user without password_hash, then generate_auth_tokens;
\* a duplicate email or username makes insert_one raise, which is answered
\* 400.  The finally block runs cleanup.
GoogleWrite(r) ==
    /\ googleReq[r].pc = "write"
    /\ LET q == googleReq[r]
           doc == [email |-> q.email, username |-> LocalPart(q.email),
                   password_hash |-> NoHash,
                   is_verified |-> TRUE, verification_token |-> NoToken,
                   created_at |-> now,
                   password_reset_token |-> NoToken,
                   password_reset_expires |-> NoTime,
                   is_active |-> TRUE,
                   verification_sent_at |-> NoTime]
       IN IF q.uid # NoId
          THEN /\ issued' = issued \cup generate_auth_tokens(q.uid)
               /\ googleReq' = [googleReq EXCEPT ![r] =
                      [@ EXCEPT !.pc = "done", !.resp = "200"]]
               /\ UNCHANGED <<users, passwordSet>>
          ELSE IF \E u \in DOMAIN users :
                     users[u].email = doc.email \/ users[u].username = doc.username
          THEN /\ googleReq' = [googleReq EXCEPT ![r] =
                      [@ EXCEPT !.pc = "done",
                                !.resp = "400 Authentication failed. Please try again."]]
               /\ UNCHANGED <<users, issued, passwordSet>>
          ELSE /\ users' = (NewUserId :> doc) @@ users
               /\ passwordSet' = (NewUserId :> "") @@ passwordSet
               /\ issued' = issued \cup generate_auth_tokens(NewUserId)
               /\ googleReq' = [googleReq EXCEPT ![r] =
                      [@ EXCEPT !.pc = "done", !.uid = NewUserId,
                                !.resp = "200"]]
    /\ codes' = cleanup
    /\ UNCHANGED <<now, ticks, verification_tokens, blacklisted_tokens,
                   nextToken, logins, mails,
                   signupReq, verifyReq, resendReq, resetFlow, sessionFlow,
                   rate_limits, rateLog, used_codes,
                   integrations>>

GoogleTicks == {300, 301}

NextGoogle ==
    \/ \E d \in GoogleTicks : Tick(d)
    \/ \E r \in 1..MaxGoogleReqs, c \in Codes \cup {""} : GoogleStart(r, c)
    \/ \E r \in 1..MaxGoogleReqs, o \in GoogleEmails \cup {""} : GoogleExchange(r, o)
    \/ \E r \in 1..MaxGoogleReqs : GoogleWrite(r)

\* Google sign-in against the database of one signed-up user
SpecGoogle == InitToken /\ [][NextGoogle]_vars

\* ------------------------------------- accounts created side by side
SocialEmails == {"a@x.com", "a@y.com"}

NextAccounts ==
    \/ \E r \in 1..MaxSignupReqs, e \in Emails : SignupStart(r, e, "Secret1!")
    \/ \E r \in 1..MaxSignupReqs : SignupSend(r, TRUE)
    \/ \E r \in 1..MaxSignupReqs : SignupInsert(r)
    \/ \E r \in 1..MaxSocialLogins, c \in Codes : GoogleStart(r, c)
    \/ \E r \in 1..MaxSocialLogins, e \in SocialEmails : GoogleExchange(r, e)
    \/ \E r \in 1..MaxSocialLogins : GoogleWrite(r)

\* signups and Google sign-ins in flight together, from the empty database
SpecAccounts == Init /\ [][NextAccounts]_vars

\* ------------------------------------------------------------ PUT /me
ProfileNames == {"alice"}

\* update_user_profile behind get_current_user and require_verified_email;
\* update_profile sets username (and name, image) and nothing else.  The
\* handler then reads the user back with the string id, finds nothing and
\* answers 404 although the update is stored.
update_user_profile(username) ==
    /\ \E token \in issued :
       LET passes == /\ ~is_blacklisted(token)
                     /\ jose_decode(token) = "ok"
                     /\ token.sub # NoId
                     /\ ObjectId(token.sub) \in DOMAIN users
           u == ObjectId(token.sub)
           user_id == token.sub
       IN IF ~passes
          THEN /\ last' = Answer("update_profile", 401, token)
               /\ UNCHANGED users
          ELSE IF ~users[u].is_verified
          THEN /\ last' = Answer("update_profile", 403, token)
               /\ UNCHANGED users
          ELSE IF /\ username # users[u].username
                  /\ \E o \in DOMAIN users : users[o].username = username
          THEN /\ last' = Answer("update_profile", 400, token)
               /\ UNCHANGED users
          ELSE /\ users' = [users EXCEPT ![u].username = username]
               /\ last' = Answer("update_profile",
                                 IF user_id \in DOMAIN users THEN 200 ELSE 404,
                                 token)
    /\ UNCHANGED <<now, ticks, verification_tokens, blacklisted_tokens,
                   nextToken, issued, logins, mails,
                   signupReq, verifyReq, resendReq, resetFlow,
                   authReq, loginLog, refreshes, revokedEver, inMemory,
                   passwordSet, integrations>>

\* requests started so far, the signup and the login of the first user
\* included
Started(reqs) == Cardinality({r \in DOMAIN reqs : reqs[r].pc # "idle"})
OpsStarted ==
    Started(signupReq) + Started(verifyReq) + Started(resendReq)
    + Started(forgotReq) + Started(resetReq) + Started(googleReq)
    + LoginAttempts
MayStart == OpsStarted < MaxMonotonicOps

NextMonotonic ==
    \/ /\ MayStart
       /\ \E r \in 1..MaxSignupReqs : SignupStart(r, "b@x.com", "Secret1!")
    \/ \E r \in 1..MaxSignupReqs : SignupSend(r, TRUE)
    \/ \E r \in 1..MaxSignupReqs : SignupInsert(r)
    \/ /\ MayStart
       /\ \E p \in {"Secret1!", "NewPass9!"} :
             Login("10.0.0.1", "a@x.com", p)
    \/ /\ MayStart
       /\ \E r \in 1..MaxSocialLogins : GoogleStart(r, "code-A")
    \/ \E r \in 1..MaxSocialLogins : GoogleExchange(r, "a@x.com")
    \/ \E r \in 1..MaxSocialLogins : GoogleWrite(r)
    \/ /\ MayStart
       /\ \E r \in 1..MaxResendReqs : ResendStart(r, TRUE)
    \/ \E r \in 1..MaxResendReqs : ResendUpdate(r)
    \/ \E r \in 1..MaxResendReqs : ResendCleanup(r)
    \/ /\ MayStart
       /\ \E r \in 1..MaxVerifyReqs, t \in 1..MaxTokens : VerifyStart(r, t)
    \/ \E r \in 1..MaxVerifyReqs : VerifyFindUser(r)
    \/ \E r \in 1..MaxVerifyReqs : VerifyStoreSeen(r)
    \/ \E r \in 1..MaxVerifyReqs : VerifyUpdate(r)
    \/ \E r \in 1..MaxVerifyReqs : VerifyStore(r)
    \/ /\ MayStart
       /\ \E r \in 1..MaxForgotReqs : ForgotStart(r, "a@x.com")
    \/ \E r \in 1..MaxForgotReqs : ForgotUpdate(r, TRUE)
    \/ /\ MayStart
       /\ \E r \in 1..MaxResetReqs, t \in 1..MaxTokens :
             ResetStart(r, t, "NewPass9!")
    \/ \E r \in 1..MaxResetReqs : ResetUpdate(r, TRUE)
    \/ \E n \in ProfileNames : update_user_profile(n)

\* every operation that writes a users document, around one user who
\* verifies its email
SpecMonotonic == InitVerify /\ [][NextMonotonic]_vars

DeactivateTicks == {60}

NextDeactivate ==
    \/ \E d \in DeactivateTicks : Tick(d)
    \/ \E c \in {"10.0.0.1"} : LoginRegistered(c)
    \/ deactivate_user_account
    \/ DisableInDatabase
    \/ RefreshToken
    \/ \E r \in 1..MaxSocialLogins, c \in Codes : GoogleStart(r, c)
    \/ \E r \in 1..MaxSocialLogins : GoogleExchange(r, "a@x.com")
    \/ \E r \in 1..MaxSocialLogins : GoogleWrite(r)

\* login, refresh and Google sign-in of one user whose account is disabled
\* at some point
SpecDeactivate == InitToken /\ [][NextDeactivate]_vars

\* ------------------------------------------------------------ login flow
LoginTicks == {20, 60}

NextLogin ==
    \/ \E d \in LoginTicks : Tick(d)
    \/ \E c \in Clients, e \in Emails, p \in Passwords : Login(c, e, p)

SpecLogin == InitToken /\ [][NextLogin]_vars

\* ------------------------------------------------------------------ claims
VerifyIds == 1..MaxVerifyReqs

\* C1 (as claimed): of two verify-email requests that both started on the
\* same valid token of a still unverified user (no resend in flight, the
\* token still inside its 24 hours when both have answered), one answers
\* "verified" and the other "already_verified".
C1_RaceOneVerifiedOtherAlready ==
    \A r1 \in VerifyIds, r2 \in VerifyIds :
        ( /\ r1 # r2
          /\ verifyReq[r1].pc = "done" /\ verifyReq[r2].pc = "done"
          /\ verifyReq[r1].token = verifyReq[r2].token
          /\ verifyReq[r1].valid /\ verifyReq[r2].valid
          /\ verifyReq[r1].clean /\ verifyReq[r2].clean
          /\ \A u \in DOMAIN users :
                users[u].created_at > now - VerificationValidity )
        => {verifyReq[r1].resp, verifyReq[r2].resp} = {"verified", "already_verified"}

C6_VerifiesOnlyOnTokenMatch ==
    [][\A u \in DOMAIN users :
          (~users[u].is_verified /\ users'[u].is_verified)
          => \E r \in VerifyIds :
                /\ verifyReq[r].pc = "update" /\ verifyReq'[r].pc = "store"
                /\ verifyReq[r].uid = u
                /\ users[u].verification_token = verifyReq[r].token]_vars

ResetIds == 1..MaxResetReqs

ResetSucceeded(r) ==
    /\ resetReq[r].pc = "done"
    /\ resetReq[r].resp = "200 Your password has been reset successfully"

\* C2 (as claimed): among the reset-password requests presenting one token,
\* at most one succeeds and replaces the password hash.
C2_TokenConsumedOnce ==
    \A r1 \in ResetIds, r2 \in ResetIds :
        (/\ r1 # r2
         /\ resetReq[r1].token = resetReq[r2].token
         /\ ResetSucceeded(r1))
        => ~ResetSucceeded(r2)

ResetFields(d) ==
    <<d.password_hash, d.password_reset_token, d.password_reset_expires>>

\* C7: a reset-password request whose token is not stored with an expiry
\* later than now answers "Invalid or expired token" and changes nothing;
\* the hash, the reset token and its expiry of a user change only in the
\* update of a reset request that found the token live or in the update of
\* a forgot-password request, never by the passage of time.
C7_ExpiryEnforcedAtConsumption ==
    /\ [](\A r \in ResetIds :
            (resetReq[r].pc # "idle" /\ ~resetReq[r].live)
            => /\ resetReq[r].pc = "done"
               /\ resetReq[r].resp = "400 Invalid or expired token")
    /\ [][\A u \in DOMAIN users :
            ResetFields(users'[u]) # ResetFields(users[u])
            => \/ \E r \in ResetIds :
                     /\ resetReq[r].pc = "update" /\ resetReq'[r].pc = "done"
                     /\ resetReq[r].uid = u /\ resetReq[r].live
               \/ \E f \in 1..MaxForgotReqs :
                     /\ forgotReq[f].pc = "update" /\ forgotReq'[f].pc = "done"
                     /\ forgotReq[f].uid = u
                     /\ users'[u].password_hash = users[u].password_hash]_vars

C7_Witness ==
    \E r \in ResetIds, u \in DOMAIN users :
        /\ resetReq[r].pc = "done"
        /\ resetReq[r].resp = "400 Invalid or expired token"
        /\ users[u].password_reset_token = resetReq[r].token
        /\ users[u].password_reset_expires = now

\* C3: a request whose token has an entry in blacklisted_tokens when
\* middleware get_current_user looks it up is answered 401 "Token has been
\* invalidated", also when the token is signed, unexpired and its subject
\* is an existing user.
C3_RevokedTokenRejected ==
    (authReq.pc # "idle" /\ authReq.revoked)
    => /\ authReq.pc = "done"
       /\ authReq.resp = "401 Token has been invalidated"

C3_Witness ==
    /\ authReq.pc = "done"
    /\ authReq.revoked
    /\ authReq.resp = "401 Token has been invalidated"
    /\ authReq.token.sig
    /\ authReq.token.exp > now
    /\ ObjectId(authReq.token.sub) \in DOMAIN users

\* C4 (as claimed): no endpoint that authenticates by the bearer token
\* answers with user data or changes state for a token that has an entry in
\* blacklisted_tokens: GET /api/profile/me, routers.auth.get_current_user,
\* POST /verify-email/resend and middleware get_current_user.
C4_EveryBearerEndpointConsultsRevocation ==
    /\ (last.op \in {"profile_me", "router_get_current_user"} /\ last.revoked)
       => last.status # 200
    /\ \A r \in 1..MaxResendReqs :
          resendReq[r].revoked
          => /\ resendReq[r].pc = "done"
             /\ resendReq[r].resp = "401 Invalid token"
    /\ (authReq.pc = "done" /\ authReq.revoked) => authReq.resp # "200"

\* C8 (as claimed): a token that a logout has revoked is never accepted by
\* the validator afterwards.
C8_RevokedNeverAcceptedLater ==
    (authReq.pc = "done" /\ authReq.wasRevoked) => authReq.resp # "200"

\* C9 (as claimed): POST /refresh-token issues no new token pair for a
\* token that has an entry in blacklisted_tokens.
C9_RefreshRefusesRevoked ==
    (last.op = "refresh_token" /\ last.revoked) => last.status # 200

\* C10 (as claimed): when a client makes six login attempts within one
\* minute and the first five carry a wrong password, the first five are
\* answered 401 "Invalid email or password" and the sixth is rejected by
\* the rate limiter (429), whatever its credentials.
C10_SixthLoginRateLimited ==
    \A c \in Clients :
        ( /\ Len(loginLog[c]) >= 6
          /\ loginLog[c][6].t - loginLog[c][1].t < 60
          /\ \A i \in 1..5 : loginLog[c][i].status # 200 )
        => /\ \A i \in 1..5 :
                /\ loginLog[c][i].status = 401
                /\ loginLog[c][i].detail = "Invalid email or password"
           /\ loginLog[c][6].status = 429

\* the accepted calls of a key among its first n, made less than 60 seconds
\* before time t
CountedBefore(c, n, t) ==
    {j \in 1..n : rateLog[c][j].ok /\ t - rateLog[c][j].t < RATE_LIMIT_DURATION}

\* C11: every call of check_rate_limit for a key returns true exactly when
\* fewer than 5 earlier calls for the same key were accepted less than 60
\* seconds before it; so from an empty history the first 5 calls of a
\* window are accepted, the 6th is refused, a call made once 60 seconds
\* have passed since the oldest counted one is accepted again, and the
\* calls of another key play no part.
C11_SlidingWindowPerKey ==
    \A c \in Clients :
        \A i \in 1..Len(rateLog[c]) :
            rateLog[c][i].ok
            <=> Cardinality(CountedBefore(c, i - 1, rateLog[c][i].t))
                    < RATE_LIMIT_ATTEMPTS

\* five accepted, the sixth refused within the window while a first call of
\* another key is accepted at the same moment, the seventh accepted 60
\* seconds after the first
C11_Witness ==
    \E c \in Clients, d \in Clients :
        /\ c # d
        /\ Len(rateLog[c]) = 7
        /\ Len(rateLog[d]) = 1
        /\ rateLog[d][1].ok
        /\ rateLog[d][1].t = rateLog[c][6].t
        /\ \A i \in 1..5 : rateLog[c][i].ok
        /\ ~rateLog[c][6].ok
        /\ rateLog[c][6].t - rateLog[c][1].t < RATE_LIMIT_DURATION
        /\ rateLog[c][7].ok
        /\ rateLog[c][7].t - rateLog[c][1].t = RATE_LIMIT_DURATION

GoogleIds == 1..MaxGoogleReqs

Apart(a, b) == IF a >= b THEN a - b ELSE b - a

\* C12: two requests to POST /social/google that both passed add_code with
\* the same code presented it more than 5 minutes apart; a request that did
\* not pass add_code is answered 409 without reaching the provider, and
\* another request passed add_code with that code before it; only a request
\* that passed add_code reaches the provider.
C12_CodeExchangedOnceWhileTracked ==
    /\ \A r1 \in GoogleIds, r2 \in GoogleIds :
          (/\ r1 # r2
           /\ googleReq[r1].claimed /\ googleReq[r2].claimed
           /\ googleReq[r1].code = googleReq[r2].code)
          => Apart(googleReq[r1].t, googleReq[r2].t) > CODE_TTL
    /\ \A r \in GoogleIds :
          /\ googleReq[r].exchanged => googleReq[r].claimed
          /\ (googleReq[r].pc # "idle" /\ googleReq[r].code # ""
                /\ ~googleReq[r].claimed)
             => /\ googleReq[r].pc = "done"
                /\ googleReq[r].resp = "409 Request already being processed"
                /\ \E r2 \in GoogleIds :
                      /\ r2 # r
                      /\ googleReq[r2].claimed
                      /\ googleReq[r2].code = googleReq[r].code
                      /\ googleReq[r2].t <= googleReq[r].t

\* one request exchanged the code, a second one presenting it within the 5
\* minutes got 409, and a third one presenting it later, after a sweep,
\* passed add_code again
C12_Witness ==
    \E r1 \in GoogleIds, r2 \in GoogleIds, r3 \in GoogleIds :
        /\ googleReq[r1].claimed /\ googleReq[r1].exchanged
        /\ googleReq[r2].code = googleReq[r1].code
        /\ googleReq[r2].resp = "409 Request already being processed"
        /\ googleReq[r2].t - googleReq[r1].t <= CODE_TTL
        /\ googleReq[r3].code = googleReq[r1].code
        /\ r3 # r1 /\ googleReq[r3].claimed

\* C13 (as claimed): a request presenting a code passes add_code when every
\* request that claimed the code before it did so more than 5 minutes
\* earlier and no request was in flight when it arrived.
C13_ClaimableAfterWindow ==
    \A r \in GoogleIds :
        (/\ googleReq[r].pc # "idle" /\ googleReq[r].code # ""
         /\ \A r2 \in GoogleIds :
               (r2 # r /\ googleReq[r2].claimed
                 /\ googleReq[r2].code = googleReq[r].code)
               => googleReq[r].t - googleReq[r2].t > CODE_TTL
         /\ googleReq[r].quiet)
        => googleReq[r].claimed

\* C14 (as claimed): every answer of POST /forgot-password is the generic
\* 200 message.
C14_ForgotAnswerAlwaysGeneric ==
    \A r \in 1..MaxForgotReqs :
        forgotReq[r].pc = "done" => forgotReq[r].resp = GenericForgotAnswer

SignupIds == 1..MaxSignupReqs

\* C15: a signup whose verification email failed is answered 500 and the
\* document it built (the one carrying its verification token) is in no
\* state of the users collection; every user in the collection was created
\* by a signup answered 201, after a verification email for its address was
\* reported sent.
C15_NoUserWithoutVerificationMail ==
    /\ \A r \in SignupIds :
          signupReq[r].resp = "500 Failed to send verification email"
          => \A u \in DOMAIN users :
                users[u].verification_token # signupReq[r].token
    /\ \A u \in DOMAIN users :
          /\ mails[<<"verification", users[u].email>>] >= 1
          /\ \E r \in SignupIds :
                /\ signupReq[r].resp = "201"
                /\ signupReq[r].token = users[u].verification_token
                /\ signupReq[r].email = users[u].email

\* one signup failed on the email and left no user for its address, another
\* one was answered 201
C15_Witness ==
    \E r1 \in SignupIds, r2 \in SignupIds :
        /\ signupReq[r1].resp = "500 Failed to send verification email"
        /\ get_user_by_email(signupReq[r1].email) = NoId
        /\ signupReq[r2].resp = "201"
        /\ get_user_by_email(signupReq[r2].email) # NoId

\* C16 (as claimed): the step of a forgot-password request that ends in the
\* 500 of a failed reset email leaves password_reset_token and
\* password_reset_expires of every user as they were.
C16_FailedMailRecordsNoToken ==
    [][\A r \in 1..MaxForgotReqs :
          (/\ forgotReq[r].pc # "done"
           /\ forgotReq'[r].pc = "done"
           /\ forgotReq'[r].resp # GenericForgotAnswer)
          => \A u \in DOMAIN users :
                /\ users'[u].password_reset_token = users[u].password_reset_token
                /\ users'[u].password_reset_expires
                      = users[u].password_reset_expires]_vars

C18_FirstFailingCheckReported ==
    [][LET token == authReq'.token
           listed == \E b \in blacklisted_tokens : b.token = token
           expired == token.sig /\ token.exp < now
           started == /\ authReq.pc \in {"idle", "done"}
                      /\ authReq'.pc \in {"done", "find_user"}
                      /\ authReq' # authReq
           looked == authReq.pc = "find_user" /\ authReq'.pc = "done"
       IN /\ (started /\ token = Empty) =>
                authReq'.resp = "401 No authentication token provided"
          /\ (started /\ token # Empty /\ listed) =>
                authReq'.resp = "401 Token has been invalidated"
          /\ (started /\ token # Empty /\ ~listed /\ expired) =>
                authReq'.resp = "401 Token has expired"
          /\ (started /\ token # Empty /\ ~listed /\ ~token.sig) =>
                authReq'.resp = "401 Invalid token format"
          /\ (started /\ token # Empty /\ ~listed /\ token.sig /\ ~expired
                 /\ token.sub = NoId) =>
                authReq'.resp = "401 Invalid token claims"
          /\ (started /\ token # Empty /\ ~listed /\ token.sig /\ ~expired
                 /\ token.sub # NoId) =>
                authReq'.pc = "find_user"
          /\ (looked /\ \E u \in DOMAIN users : str(u) = authReq.token.sub) =>
                authReq'.resp = "200"
          /\ (looked /\ ~\E u \in DOMAIN users : str(u) = authReq.token.sub) =>
                authReq'.resp = "401 User not found"]_vars

\* a token that was logged out and has since expired is presented and
\* reported as invalidated
C18_Witness ==
    /\ authReq.pc = "done"
    /\ authReq.token \in issued
    /\ authReq.token.exp < now
    /\ \E b \in blacklisted_tokens : b.token = authReq.token
    /\ authReq.resp = "401 Token has been invalidated"

\* C19: logout is idempotent: every logout answers success, the revocation
\* store holds one entry for a token logged out (until its TTL has passed)
\* and never more than one, and a logout of a token that has an entry
\* neither adds an entry nor replaces the one there
C19_LogoutIdempotent ==
    /\ [](/\ last.op = "logout" => last.status = 200
          /\ \A b1, b2 \in blacklisted_tokens :
                b1.token = b2.token => b1 = b2
          /\ \A token \in revokedEver :
                (\E b \in blacklisted_tokens : b.token = token)
                  \/ now >= BlacklistTTL)
    /\ [][\A b \in blacklisted_tokens' \ blacklisted_tokens :
             ~\E c \in blacklisted_tokens : c.token = b.token]_vars

\* a token that already had its entry was logged out again: the answer is
\* success and the store holds the one entry of the first logout
C19_Witness ==
    /\ last.op = "logout"
    /\ last.revoked
    /\ last.status = 200
    /\ now > 0
    /\ \E token \in revokedEver :
          {b \in blacklisted_tokens : b.token = token}
             = {[token |-> token, created_at |-> 0]}

ResendSucceeded(q) ==
    q.pc = "done" /\ q.resp = "200 Verification email sent successfully"

\* C20 (as claimed): when a resend request completes successfully the user
\* record holds the token that request mailed, and a verify-email request
\* that starts after it with an earlier token of that user finds no
\* account to verify
C20_ResendLeavesOnlyNewToken ==
    [][/\ \A r \in DOMAIN resendReq :
             (resendReq[r].pc = "cleanup" /\ ResendSucceeded(resendReq'[r]))
                => users'[resendReq[r].uid].verification_token = resendReq[r].token
       /\ \A v \in VerifyIds, r \in DOMAIN resendReq :
             (/\ verifyReq[v].pc = "idle"
              /\ verifyReq'[v].pc # "idle"
              /\ ResendSucceeded(resendReq[r])
              /\ verifyReq'[v].token < resendReq[r].token)
                => ~verifyReq'[v].valid]_vars

\* C21 (as claimed): a verify-email request that presents the token a
\* resend wrote, within 24 hours of that resend and for a user still
\* unverified, is not answered "expired"
C21_ResentTokenValidFromResend ==
    \A v \in VerifyIds :
        (/\ verifyReq[v].pc = "done"
         /\ verifyReq[v].clean
         /\ \E u \in DOMAIN users :
               /\ users[u].verification_token = verifyReq[v].token
               /\ users[u].verification_sent_at # NoTime
               /\ now - users[u].verification_sent_at < VerificationValidity
               /\ ~users[u].is_verified)
          => verifyReq[v].resp # "expired"

\* C22: no two user records share an email and no two share a username,
\* under every interleaving of signups and Google sign-ins
C22_EmailAndUsernameUnique ==
    \A u1, u2 \in DOMAIN users :
        (users[u1].email = users[u2].email
           \/ users[u1].username = users[u2].username) => u1 = u2

\* two signups for the same email both passed the existence check; the
\* insert of one was answered 201 and the insert of the other was refused
C22_Witness ==
    \E r1, r2 \in SignupIds :
        /\ r1 # r2
        /\ signupReq[r1].email = signupReq[r2].email
        /\ signupReq[r1].token # NoToken
        /\ signupReq[r2].token # NoToken
        /\ signupReq[r1].pc = "done" /\ signupReq[r1].resp = "201"
        /\ signupReq[r2].pc = "done"
        /\ signupReq[r2].resp = "500 Internal server error during signup"

WebhookSecret(provider) ==
    IF provider = "stripe" THEN STRIPE_WEBHOOK_SECRET ELSE RAZORPAY_WEBHOOK_SECRET

C24_SupersededResetTokenRejected ==
    /\ [](\A u \in DOMAIN users :
            users[u].password_reset_token = NoToken
              <=> users[u].password_reset_expires = NoTime)
    /\ [][\A r \in ResetIds, f \in DOMAIN forgotReq :
            (/\ resetReq[r].pc = "idle"
             /\ resetReq'[r].pc # "idle"
             /\ forgotReq[f].pc = "done"
             /\ forgotReq[f].token = resetReq'[r].token
             /\ users[forgotReq[f].uid].password_reset_token
                   \notin {NoToken, forgotReq[f].token})
            => /\ resetReq'[r].pc = "done"
               /\ resetReq'[r].resp = "400 Invalid or expired token"
               /\ users' = users]_vars

\* the token of a first forgot-password request was refused after a second
\* request had stored its own, which the user still holds
C24_Witness ==
    \E r \in ResetIds, f, g \in DOMAIN forgotReq :
        /\ f # g
        /\ forgotReq[f].pc = "done" /\ forgotReq[g].pc = "done"
        /\ forgotReq[f].token # NoToken
        /\ resetReq[r].token = forgotReq[f].token
        /\ resetReq[r].pc = "done"
        /\ resetReq[r].resp = "400 Invalid or expired token"
        /\ users[forgotReq[g].uid].password_reset_token = forgotReq[g].token
        /\ users[forgotReq[g].uid].password_reset_expires > now

\* C25: a refused call of check_rate_limit records nothing: it leaves the
\* key with its earlier timestamps less those that left the window, every
\* recorded timestamp is the time of an accepted call, and no key ever
\* holds more than 5 of them
C25_DeniedAttemptNotRecorded ==
    /\ [](\A c \in Clients :
            /\ Len(rate_limits[c]) <= RATE_LIMIT_ATTEMPTS
            /\ \A i \in 1..Len(rate_limits[c]) :
                  \E j \in 1..Len(rateLog[c]) :
                     rateLog[c][j].ok /\ rateLog[c][j].t = rate_limits[c][i])
    /\ [][\A c \in Clients :
            (/\ Len(rateLog'[c]) = Len(rateLog[c]) + 1
             /\ ~rateLog'[c][Len(rateLog'[c])].ok)
            => rate_limits'[c] =
                 SelectSeq(rate_limits[c],
                           LAMBDA t : now - t < RATE_LIMIT_DURATION)]_vars

\* two calls refused after five accepted ones, the key still holding the
\* five accepted timestamps, and the next call accepted 60 seconds after
\* the first although a refused call came in between
C25_Witness ==
    \E c \in Clients :
        /\ Len(rateLog[c]) = 8
        /\ \A i \in 1..5 : rateLog[c][i].ok
        /\ ~rateLog[c][6].ok
        /\ ~rateLog[c][7].ok
        /\ rateLog[c][8].ok
        /\ rateLog[c][8].t = rateLog[c][1].t + RATE_LIMIT_DURATION
        /\ rateLog[c][7].t = rateLog[c][1].t + RATE_LIMIT_DURATION - 1

\* C26 (as claimed): no email takes more than 3 SMTP attempts, and a send
\* reports failure only after its third failed SMTP attempt
C26_FailureOnlyAfterThreeAttempts ==
    \A i \in 1..Len(sendLog) :
        /\ sendLog[i].smtp_attempts <= STOP_AFTER_ATTEMPT
        /\ ~sendLog[i].result => sendLog[i].smtp_attempts = STOP_AFTER_ATTEMPT

\* C27 (as claimed): a user whose is_verified is true stores no verification
\* token, also when a resend and a verification of that user overlap
C27_VerifiedUserHoldsNoToken ==
    \A id \in DOMAIN users :
        users[id].is_verified => users[id].verification_token = NoToken

Consumed(token) ==
    \E r \in VerifyIds : verifyReq[r].mutated /\ verifyReq[r].token = token

\* the latest status answer was "pending", and request r is a verify-email
\* with the same token that arrived after it with nothing in between: no
\* clock step, no request in flight then, no other request started since
VerifiedRightAfterPending(r) ==
    /\ last.op = "verify_status"
    /\ last.status = "pending"
    /\ last.ticks = ticks
    /\ \A x \in VerifyIds : ~InFlight(last.reqs[1][x])
    /\ \A x \in DOMAIN resendReq : ~InFlight(last.reqs[2][x])
    /\ last.reqs[1][r].pc = "idle"
    /\ \A x \in VerifyIds \ {r} : verifyReq[x] = last.reqs[1][x]
    /\ resendReq = last.reqs[2]
    /\ verifyReq[r].pc = "done"
    /\ verifyReq[r].token = last.token

\* the status endpoint never answers "pending" for a consumed token
NoPendingForConsumedToken ==
    [][(/\ last' # last
        /\ last'.op = "verify_status"
        /\ last'.status = "pending")
      => ~Consumed(last'.token)]_vars

\* C29 (as claimed): a verify-email that follows a "pending" status answer
\* for the same token with nothing in between answers "verified"; and the
\* status endpoint never answers "pending" for a consumed token
C29_PendingThenVerified ==
    /\ [](\A r \in VerifyIds :
            VerifiedRightAfterPending(r) => verifyReq[r].resp = "verified")
    /\ NoPendingForConsumedToken

\* C30: no step sets a user's is_verified back from true to false, nor
\* removes a verified user
C30_VerificationMonotonic ==
    [][\A u \in DOMAIN users :
          users[u].is_verified
          => (u \in DOMAIN users' /\ users'[u].is_verified)]_vars

\* a verified user whose document was written after the verification: by a
\* resend that had read it before, and by a profile update
C30_Witness ==
    \E u \in DOMAIN users :
        /\ users[u].is_verified
        /\ users[u].verification_sent_at # NoTime
        /\ users[u].username = "alice"

====
